---------------------------- MODULE Spec2Model ----------------------------
(***************************************************************************)
(* nestadia: the 6502 CPU core (server/nestadia-core/src/cpu/mod.rs) and   *)
(* the cartridge layer (nestadia/src/cartridge/mod.rs) as a state machine. *)
(*                                                                         *)
(* Bytes are 0..255, addresses 0..65535.  Memory and byte vectors are      *)
(* sparse functions over the indexes that differ from a fill byte, so that *)
(* a 16 KiB bank is a small value.  A CPU operation threads a record s     *)
(* (registers, RAM, and the bus accesses it issued) through the helpers    *)
(* in the order the Rust code calls them.                                  *)
(***************************************************************************)
EXTENDS Integers, Sequences, FiniteSets, TLC

VARIABLES
    a, x, y, st, pc, cycles, status_register, execution_mode,  \* struct Cpu
    ram,            \* the bus's 2 KiB internal RAM (sparse, 0 elsewhere)
    cart,           \* the Cartridge, or NoCart before a successful load
    load_result,    \* what the last Cartridge::load returned
    rom_in,         \* the ROM slice handed to the last Cartridge::load
    cret,           \* what the last cartridge method returned (or that it panicked)
    cin,            \* the arguments of the last cartridge method and what the
                    \* mapper answered it
    call,           \* the last operation called
    log,            \* the bus accesses the last CPU operation issued, in order
    opcode,         \* the opcode the last clock() decoded ("none": it was idle)
    penalty,        \* cycles the last decoded instruction added on top of its base
    debt,           \* cycle debt left by the last executed instruction, -1 once
                    \* a reset/irq/nmi intervened
    idle,           \* idle clock() calls since the last executed instruction
    prior,          \* the registers as they were before the last instruction
                    \* executed or reset/irq/nmi call, and which one it was
    owed,           \* the cycle debt the last operation was entered with
    origin,         \* the registers and the RAM the run started with
    twin,           \* a second run of the same calls on the same memory, with
                    \* other contents in one embedded array (on only in SpecTwin)
    budget          \* what is left of the run's budget of operations

cpu_vars == <<a, x, y, st, pc, cycles, status_register, execution_mode>>
cart_vars == <<cart, load_result, rom_in, cret, cin>>
ghost_vars == <<call, log, opcode, penalty, debt, idle, prior, owed, origin, twin, budget>>
vars == <<cpu_vars, ram, cart_vars, ghost_vars>>

-----------------------------------------------------------------------------
(* Bounds of the model *)

\* the budget of one run of the CPU: a clock() call takes 1 of it
MaxSteps == 36
\* what a reset(), irq() or nmi() call takes of the budget
IntrCost == 12
\* method calls on one loaded cartridge
MaxCartOps == 3

-----------------------------------------------------------------------------
(* Fixed-width arithmetic *)

RECURSIVE BitAnd(_, _)
BitAnd(u, v) ==
    IF u = 0 \/ v = 0 THEN 0
    ELSE (u % 2) * (v % 2) + 2 * BitAnd(u \div 2, v \div 2)

RECURSIVE BitOr(_, _)
BitOr(u, v) ==
    IF u = 0 THEN v
    ELSE IF v = 0 THEN u
    ELSE (IF u % 2 = 1 \/ v % 2 = 1 THEN 1 ELSE 0) + 2 * BitOr(u \div 2, v \div 2)

RECURSIVE BitXor(_, _)
BitXor(u, v) ==
    IF u = 0 THEN v
    ELSE IF v = 0 THEN u
    ELSE ((u + v) % 2) + 2 * BitXor(u \div 2, v \div 2)

\* u8 / u16 wrapping arithmetic
W8(n) == n % 256
W16(n) == n % 65536

\* u16::from(lo) | (u16::from(hi) << 8)
Word(lo, hi) == lo + 256 * hi

EmptyMem == [i \in {} |-> 0]

\* a sparse store: index i holds v; entries equal to the fill byte are dropped
SparsePut(m, fill, i, v) ==
    IF v = fill
    THEN [j \in DOMAIN m \ {i} |-> m[j]]
    ELSE [j \in DOMAIN m \cup {i} |-> IF j = i THEN v ELSE m[j]]

\* the element of a one-element set.  Only({ e : n \in {d} }) is e with n
\* naming the value of d, computed once; nested, the outermost name is
\* computed first
Only(S) == CHOOSE q \in S : TRUE

-----------------------------------------------------------------------------
(* StatusRegister (bitflags) *)

StatusRegister_C == 1
StatusRegister_Z == 2
StatusRegister_I == 4
StatusRegister_D == 8
StatusRegister_B == 16
StatusRegister_U == 32
StatusRegister_V == 64
StatusRegister_N == 128

\* StatusRegister::contains
contains(p, f) == BitAnd(p, f) = f

\* StatusRegister::set
set(p, f, b) == IF b THEN BitOr(p, f) ELSE BitAnd(p, 255 - f)

STACK_BASE == 256
PC_START == 65532
IRQ_HANDLER == 65534
NMI_HANDLER == 65530

-----------------------------------------------------------------------------
(* Cartridge: ROM image, header, load *)

PRG_BANK_SIZE == 16384
CHR_BANK_SIZE == 8192

Flags6_MIRRORING == 1
Flags6_TRAINER == 4
Flags6_FOUR_SCREEN == 8

NoCart == [loaded |-> FALSE]

\* Option<T>
None == [some |-> FALSE]
Some(v) == [some |-> TRUE, v |-> v]

\* the arguments of a cartridge method (addr, data) with the mapper's answer
Args(addr, data, ans) == [addr |-> addr, data |-> data, ans |-> ans]
NoArgs == Args(0, 0, None)

\* A ROM slice: its length, its first 16 bytes, and its body as a sparse
\* function over absolute indexes (every other body byte is `fill`).
RomAt(rom, i) ==
    IF i < 16 THEN rom.hdr[i + 1]
    ELSE IF i \in DOMAIN rom.body THEN rom.body[i]
    ELSE rom.fill

\* rom[from..to].to_vec() taken one byte too far into the slice
slice_one_byte_late(rom, from, to) ==
    [len |-> to - from, off |-> from + 1, fill |-> rom.fill, body |-> rom.body,
     w |-> EmptyMem]

\* rom[from..to].to_vec(): a view of the slice plus the bytes written since
Slice(rom, from, to) ==
    [len |-> to - from, off |-> from, fill |-> rom.fill, body |-> rom.body,
     w |-> EmptyMem]

\* vec![0u8; n]
Zeroed(n) == [len |-> n, off |-> 0, fill |-> 0, body |-> EmptyMem, w |-> EmptyMem]

\* v[i], for i < v.len
VecAt(v, i) ==
    IF i \in DOMAIN v.w THEN v.w[i]
    ELSE IF (v.off + i) \in DOMAIN v.body THEN v.body[v.off + i]
    ELSE v.fill

\* v[i] = data, for i < v.len
VecPut(v, i, data) ==
    [v EXCEPT !.w = [j \in DOMAIN v.w \cup {i} |-> IF j = i THEN data ELSE v.w[j]]]

\* INesHeader::try_from (ines_header.rs is not part of the sources; after
\* spec 4.1 and 6: 16 bytes, magic "NES\x1A", counts in bytes 4 and 5, flags
\* in byte 6, mapper id (flags7 & 0xF0) | (flags6 >> 4))
INesHeader_try_from(rom) ==
    IF rom.len < 16 THEN [err |-> "TooShort"]
    ELSE IF SubSeq(rom.hdr, 1, 4) # <<78, 69, 83, 26>> THEN [err |-> "InvalidMagicBytes"]
    ELSE [err |-> "Ok",
          prg_size |-> rom.hdr[5],
          chr_size |-> rom.hdr[6],
          flags6 |-> rom.hdr[7],
          mapper_id |-> BitOr(BitAnd(rom.hdr[8], 240), rom.hdr[7] \div 16)]

\* `match header.mapper_id` without the arm of mapper 66
mappers_without_066 == {0, 1, 2, 3, 4}

SupportedMappers == {0, 1, 2, 3, 4, 66}

\* MapperNNN::new (the mappers are not part of the sources; the model keeps
\* what the cartridge hands them and the IRQ latch of spec 4.2)
Mapper_new(id, prg_banks, mirroring, save_data) ==
    [id |-> id, prg_banks |-> prg_banks, mirroring |-> mirroring,
     sram |-> IF id = 1 THEN save_data ELSE None, irq |-> FALSE]

\* Cartridge::load with the length check removed
load_without_length_check(rom, save_data) ==
    LET header == INesHeader_try_from(rom) IN
    IF header.err # "Ok" THEN [err |-> header.err, cart |-> NoCart]
    ELSE
    LET mirroring ==
            IF contains(header.flags6, Flags6_FOUR_SCREEN) THEN "FourScreen"
            ELSE IF contains(header.flags6, Flags6_MIRRORING) THEN "Vertical"
            ELSE "Horizontal"
    IN
    IF header.mapper_id \notin SupportedMappers
    THEN [err |-> "MapperNotImplemented", cart |-> NoCart]
    ELSE
    LET mapper == Mapper_new(header.mapper_id, header.prg_size, mirroring, save_data)
        chr_memory_len == CHR_BANK_SIZE * header.chr_size
        prg_memory_len == PRG_BANK_SIZE * header.prg_size
        prg_start == IF contains(header.flags6, Flags6_TRAINER) THEN 512 + 16 ELSE 16
        prg_end == prg_start + prg_memory_len
        chr_ram == header.chr_size = 0
    IN [err |-> "Ok",
        cart |-> [loaded |-> TRUE,
                  chr_ram |-> chr_ram,
                  prg_memory |-> Slice(rom, prg_start, prg_end),
                  chr_memory |-> IF ~chr_ram
                                 THEN Slice(rom, prg_end, prg_end + chr_memory_len)
                                 ELSE Zeroed(CHR_BANK_SIZE),
                  mapper |-> mapper]]

\* Cartridge::load
Cartridge_load(rom, save_data) ==
    LET header == INesHeader_try_from(rom) IN
    IF header.err # "Ok" THEN [err |-> header.err, cart |-> NoCart]
    ELSE
    LET mirroring ==
            IF contains(header.flags6, Flags6_FOUR_SCREEN) THEN "FourScreen"
            ELSE IF contains(header.flags6, Flags6_MIRRORING) THEN "Vertical"
            ELSE "Horizontal"
    IN
    IF header.mapper_id \notin SupportedMappers
    THEN [err |-> "MapperNotImplemented", cart |-> NoCart]
    ELSE
    LET mapper == Mapper_new(header.mapper_id, header.prg_size, mirroring, save_data)
        chr_memory_len == CHR_BANK_SIZE * header.chr_size
        prg_memory_len == PRG_BANK_SIZE * header.prg_size
        prg_start == IF contains(header.flags6, Flags6_TRAINER) THEN 512 + 16 ELSE 16
        expected_rom_size == prg_start + prg_memory_len + chr_memory_len
    IN
    IF rom.len < expected_rom_size
    THEN [err |-> "TooShort", cart |-> NoCart]
    ELSE
    LET prg_end == prg_start + prg_memory_len
        chr_ram == header.chr_size = 0
    IN [err |-> "Ok",
        cart |-> [loaded |-> TRUE,
                  chr_ram |-> chr_ram,
                  prg_memory |-> Slice(rom, prg_start, prg_end),
                  chr_memory |-> IF ~chr_ram
                                 THEN Slice(rom, prg_end, prg_end + chr_memory_len)
                                 ELSE Zeroed(CHR_BANK_SIZE),
                  mapper |-> mapper]]

-----------------------------------------------------------------------------
(* Cartridge: memory access.  A method returns [panic, v, cart]: whether it *)
(* panicked, the byte it returned (`state` for a bool, `save` for an       *)
(* Option<&[u8]>), and the cartridge it left.  What the mapper answered    *)
(* (its code is not part of the sources) is a parameter.                    *)

PrgRom(rom_addr) == [kind |-> "PrgRom", v |-> rom_addr]
PrgRam(data) == [kind |-> "PrgRam", v |-> data]

\* Cartridge::read_prg_mem, the mapper having answered `target`
read_prg_mem(c, target) ==
    IF target.kind = "PrgRom"
    THEN IF c.prg_memory.len = 0
         THEN [panic |-> TRUE, v |-> 0, cart |-> c]       \* remainder by zero
         ELSE [panic |-> FALSE,
               v |-> VecAt(c.prg_memory, target.v % c.prg_memory.len),
               cart |-> c]
    ELSE [panic |-> FALSE, v |-> target.v, cart |-> c]

\* Cartridge::write_prg_mem: only the mapper is told; mapper 1 keeps PRG-RAM
write_prg_mem(c, addr, data) ==
    [panic |-> FALSE, v |-> 0, cart |-> c]

\* Cartridge::read_chr_mem, the mapper having answered offset `off`
read_chr_mem(c, off) ==
    IF c.chr_memory.len = 0
    THEN [panic |-> TRUE, v |-> 0, cart |-> c]
    ELSE [panic |-> FALSE, v |-> VecAt(c.chr_memory, off % c.chr_memory.len), cart |-> c]

\* Cartridge::write_chr_mem storing into prg_memory instead of chr_memory
write_chr_mem_into_prg(c, off, data) ==
    IF c.chr_ram /\ off.some
    THEN IF off.v >= c.chr_memory.len
         THEN [panic |-> TRUE, v |-> 0, cart |-> c]
         ELSE [panic |-> FALSE, v |-> 0,
               cart |-> [c EXCEPT !.prg_memory = VecPut(@, off.v, data)]]
    ELSE [panic |-> FALSE, v |-> 0, cart |-> c]

\* Cartridge::write_chr_mem without the test of chr_ram: CHR-ROM is written too
write_chr_mem_on_rom(c, off, data) ==
    IF off.some
    THEN IF off.v >= c.chr_memory.len
         THEN [panic |-> TRUE, v |-> 0, cart |-> c]
         ELSE [panic |-> FALSE, v |-> 0,
               cart |-> [c EXCEPT !.chr_memory = VecPut(@, off.v, data)]]
    ELSE [panic |-> FALSE, v |-> 0, cart |-> c]

\* Cartridge::write_chr_mem, the mapper having answered `off` (None or Some(offset))
write_chr_mem(c, off, data) ==
    IF c.chr_ram
    THEN IF off.some
         THEN IF off.v >= c.chr_memory.len
              THEN [panic |-> TRUE, v |-> 0, cart |-> c]  \* index out of bounds
              ELSE [panic |-> FALSE, v |-> 0,
                    cart |-> [c EXCEPT !.chr_memory = VecPut(@, off.v, data)]]
         ELSE [panic |-> FALSE, v |-> 0, cart |-> c]
    ELSE [panic |-> FALSE, v |-> 0, cart |-> c]

\* Cartridge::take_irq_set_state without the call of irq_clear
take_irq_without_clear(c) ==
    [panic |-> FALSE, state |-> c.mapper.irq, cart |-> c]

\* Cartridge::take_irq_set_state
take_irq_set_state(c) ==
    LET state == c.mapper.irq
    IN [panic |-> FALSE, state |-> state, cart |-> [c EXCEPT !.mapper.irq = FALSE]]

\* Cartridge::get_save_data
get_save_data(c) == [panic |-> FALSE, save |-> c.mapper.sram, cart |-> c]

\* Mapper000::cpu_map_read (not part of the sources; NROM of spec 4.2.1:
\* one fixed 16 or 32 KiB window)
Mapper000_cpu_map_read(mapper, addr) ==
    PrgRom(BitAnd(addr, IF mapper.prg_banks > 1 THEN 32767 ELSE 16383))

-----------------------------------------------------------------------------
(* CpuBus.  bus.rs is not part of the sources: RAM, the PPU registers and  *)
(* the controllers follow spec 3 and 4.6 (RAM masked with 0x07FF; the PPU  *)
(* and the controllers are outside the core and read as 0 here).           *)

\* CpuBus::read_ram
read_ram(mem, addr) ==
    LET i == BitAnd(addr, 2047) IN IF i \in DOMAIN mem THEN mem[i] ELSE 0

\* CpuBus::write_ram
write_ram(mem, addr, data) == SparsePut(mem, 0, BitAnd(addr, 2047), data)

\* CpuBus::read with 0x4018..=0x401f left to the cartridge's arm
read_arms_prg_from_4018 ==
    << [lo |-> 0,     hi |-> 8191,  target |-> "ram"],
       [lo |-> 8192,  hi |-> 16383, target |-> "ppu"],
       [lo |-> 16384, hi |-> 16405, target |-> "apu"],
       [lo |-> 16406, hi |-> 16406, target |-> "controller1"],
       [lo |-> 16407, hi |-> 16407, target |-> "controller2"],
       [lo |-> 16408, hi |-> 65535, target |-> "prg"] >>

\* CpuBus::read, the arms of `match addr` in the order of the source: the
\* range of addresses and what the arm calls ("apu": the arms that are just 0)
ReadArms ==
    << [lo |-> 0,     hi |-> 8191,  target |-> "ram"],
       [lo |-> 8192,  hi |-> 16383, target |-> "ppu"],
       [lo |-> 16384, hi |-> 16405, target |-> "apu"],
       [lo |-> 16406, hi |-> 16406, target |-> "controller1"],
       [lo |-> 16407, hi |-> 16407, target |-> "controller2"],
       [lo |-> 16408, hi |-> 16415, target |-> "apu"],
       [lo |-> 16416, hi |-> 65535, target |-> "prg"] >>

\* CpuBus::write, the arms of `match addr` ("apu": the arms that are just ())
WriteArms ==
    << [lo |-> 0,     hi |-> 8191,  target |-> "ram"],
       [lo |-> 8192,  hi |-> 16383, target |-> "ppu"],
       [lo |-> 16384, hi |-> 16405, target |-> "apu"],
       [lo |-> 16406, hi |-> 16406, target |-> "controller1"],
       [lo |-> 16407, hi |-> 16407, target |-> "controller2"],
       [lo |-> 16408, hi |-> 16415, target |-> "apu"],
       [lo |-> 16416, hi |-> 65535, target |-> "prg"] >>

\* the arms of a match whose range holds the address
Matching(arms, addr) ==
    {i \in DOMAIN arms : arms[i].lo <= addr /\ addr <= arms[i].hi}

\* the arm a match takes: the first one whose range holds the address
Taken(arms, addr) ==
    arms[CHOOSE i \in Matching(arms, addr) : \A j \in Matching(arms, addr) : i <= j]

\* the target CpuBus::read picks for an address
BusTarget(addr) == Taken(ReadArms, addr).target

\* the target CpuBus::write picks for an address
BusWriteTarget(addr) == Taken(WriteArms, addr).target

\* CpuBus::read: the byte read, and s with the access logged
CpuBus_read(s, addr) ==
    Only({ [s |-> [s EXCEPT !.log = Append(@, <<"R", addr, v>>)], v |-> v] :
           v \in { IF BusTarget(addr) = "ram" THEN read_ram(s.ram, addr)
                   ELSE IF BusTarget(addr) = "prg"
                        THEN read_prg_mem(cart, Mapper000_cpu_map_read(cart.mapper, addr)).v
                   ELSE 0 } })

\* CpuBus::write
CpuBus_write(s, addr, data) ==
    IF BusWriteTarget(addr) = "ram"
    THEN [s EXCEPT !.log = Append(@, <<"W", addr, data>>),
                   !.ram = write_ram(@, addr, data)]
    ELSE [s EXCEPT !.log = Append(@, <<"W", addr, data>>)]

-----------------------------------------------------------------------------
(* Cpu: stack, branch, addressing modes.  s is the Cpu (a, x, y, st, pc,   *)
(* cycles, p = status_register) with the RAM and the access log.           *)

\* Cpu::stack_push with S moved before the write instead of after it
stack_push_pre_decrement(s, data) ==
    CpuBus_write([s EXCEPT !.st = W8(@ + 255)], W16(STACK_BASE + W8(s.st + 255)), data)

\* Cpu::stack_push
stack_push(s, data) ==
    [CpuBus_write(s, W16(STACK_BASE + s.st), data) EXCEPT !.st = W8(@ + 255)]

\* Cpu::stack_pop reading before it increments S
stack_pop_post_increment(s) ==
    Only({ [s |-> [r.s EXCEPT !.st = W8(@ + 1)], v |-> r.v] :
           r \in {CpuBus_read(s, W16(STACK_BASE + s.st))} })

\* Cpu::stack_pop with S incremented without wrapping
stack_pop_unwrapped(s) ==
    LET s1 == [s EXCEPT !.st = s.st + 1]
    IN CpuBus_read(s1, W16(STACK_BASE + s1.st))

\* Cpu::stack_pop
stack_pop(s) ==
    LET s1 == [s EXCEPT !.st = W8(s.st + 1)]
    IN CpuBus_read(s1, W16(STACK_BASE + s1.st))

\* Cpu::branch comparing the target's page with the page of the opcode
branch_from_opcode_page(s, offset) ==
    LET s1 == [s EXCEPT !.cycles = @ + 1]
        result == W16(s1.pc + offset)
        s2 == IF BitAnd(result, 65280) # BitAnd(W16(s1.pc + 65534), 65280)
              THEN [s1 EXCEPT !.cycles = @ + 1]
              ELSE s1
    IN [s2 EXCEPT !.pc = result]

\* Cpu::branch
branch(s, offset) ==
    LET s1 == [s EXCEPT !.cycles = @ + 1]
        result == W16(s1.pc + offset)
        s2 == IF BitAnd(result, 65280) # BitAnd(s1.pc, 65280)
              THEN [s1 EXCEPT !.cycles = @ + 1]
              ELSE s1
    IN [s2 EXCEPT !.pc = result]

\* Cpu::am_imm
am_imm(s) ==
    LET s1 == [s EXCEPT !.pc = W16(@ + 1)]
    IN CpuBus_read(s1, W16(s1.pc + 65535))

\* Cpu::am_zp
am_zp(s) ==
    LET s1 == [s EXCEPT !.pc = W16(@ + 1)]
    IN Only({ [s |-> r.s, addr |-> BitAnd(r.v, 255)] :
              r \in {CpuBus_read(s1, W16(s1.pc + 65535))} })

\* Cpu::am_zpx
am_zpx(s) ==
    LET s1 == [s EXCEPT !.pc = W16(@ + 1)]
    IN Only({ [s |-> r.s, addr |-> BitAnd(W8(r.v + r.s.x), 255)] :
              r \in {CpuBus_read(s1, W16(s1.pc + 65535))} })

\* Cpu::am_zpy
am_zpy(s) ==
    LET s1 == [s EXCEPT !.pc = W16(@ + 1)]
    IN Only({ [s |-> r.s, addr |-> BitAnd(W8(r.v + r.s.y), 255)] :
              r \in {CpuBus_read(s1, W16(s1.pc + 65535))} })

\* Cpu::am_abs
am_abs(s) ==
    LET s1 == [s EXCEPT !.pc = W16(@ + 2)]
    IN Only({ Only({ [s |-> hi.s, addr |-> Word(lo.v, hi.v)] :
                     hi \in {CpuBus_read(lo.s, W16(s1.pc + 65535))} }) :
              lo \in {CpuBus_read(s1, W16(s1.pc + 65534))} })

\* what am_abx, am_aby and am_izy return, never asking for the extra cycle
indexed_without_extra_cycle(cpu, address_no_offset, address_with_offset) ==
    [s |-> cpu, addr |-> address_with_offset, extra |-> FALSE]

\* the pair (address_with_offset, need_additionnal_cycle) of am_abx, am_aby
\* and am_izy, the Cpu being left as cpu
Indexed(cpu, address_no_offset, address_with_offset) ==
    [s |-> cpu, addr |-> address_with_offset,
     extra |-> BitAnd(address_no_offset, 65280) # BitAnd(address_with_offset, 65280)]

\* Cpu::am_abx
am_abx(s) ==
    LET s1 == [s EXCEPT !.pc = W16(@ + 2)]
    IN Only({ Only({ Indexed(hi.s, Word(lo.v, hi.v), W16(Word(lo.v, hi.v) + s1.x)) :
                     hi \in {CpuBus_read(lo.s, W16(s1.pc + 65535))} }) :
              lo \in {CpuBus_read(s1, W16(s1.pc + 65534))} })

\* Cpu::am_aby
am_aby(s) ==
    LET s1 == [s EXCEPT !.pc = W16(@ + 2)]
    IN Only({ Only({ Indexed(hi.s, Word(lo.v, hi.v), W16(Word(lo.v, hi.v) + s1.y)) :
                     hi \in {CpuBus_read(lo.s, W16(s1.pc + 65535))} }) :
              lo \in {CpuBus_read(s1, W16(s1.pc + 65534))} })

\* the target of am_ind: bus.read(ptr), then bus.read(second), as one address
Pointee(s, ptr, second) ==
    Only({ Only({ [s |-> thi.s, addr |-> Word(tlo.v, thi.v)] :
                  thi \in {CpuBus_read(tlo.s, second)} }) :
           tlo \in {CpuBus_read(s, ptr)} })

\* Cpu::am_ind (`ptr | 0x00ff == 0x00ff` is `(ptr | 0x00ff) == 0x00ff` in Rust)
am_ind(s) ==
    Only({ IF BitOr(r.addr, 255) = 255
           THEN Pointee(r.s, r.addr, BitAnd(r.addr, 65280))
           ELSE Pointee(r.s, r.addr, W16(r.addr + 1)) :
           r \in {am_abs(s)} })

\* Cpu::am_izx
am_izx(s) ==
    LET s1 == [s EXCEPT !.pc = W16(@ + 1)]
    IN Only({ Pointee(r.s, BitAnd(W8(r.v + s1.x), 255),
                      BitAnd(W16(BitAnd(W8(r.v + s1.x), 255) + 1), 255)) :
              r \in {CpuBus_read(s1, W16(s1.pc + 65535))} })

\* Cpu::am_izy
am_izy(s) ==
    LET s1 == [s EXCEPT !.pc = W16(@ + 1)]
    IN Only({ Only({ Indexed(t.s, t.addr, W16(t.addr + s1.y)) :
                     t \in {Pointee(r.s, BitAnd(r.v, 255), W16(BitAnd(r.v, 255) + 1))} }) :
              r \in {CpuBus_read(s1, W16(s1.pc + 65535))} })

\* Cpu::am_rel
am_rel(s) ==
    LET s1 == [s EXCEPT !.pc = W16(@ + 1)]
    IN Only({ [s |-> r.s,
               addr |-> IF BitAnd(r.v, 128) = 128 THEN BitOr(r.v, 65280) ELSE r.v] :
              r \in {CpuBus_read(s1, W16(s1.pc + 65535))} })

-----------------------------------------------------------------------------
(* Cpu: instructions.  An instruction on an operand returns the Cpu it     *)
(* leaves; a shift, rotate, INC or DEC returns [s, v] with its result v.   *)

\* the Z and N updates that close most instructions: Z from v = 0, N from bit 7
SetZN(s, v) ==
    [s EXCEPT !.p = set(set(@, StatusRegister_Z, v = 0),
                        StatusRegister_N, BitAnd(v, 128) = 128)]

\* Cpu::inst_adc
inst_adc(s, op) ==
    LET result == W16(W16(s.a + op)
                      + IF contains(s.p, StatusRegister_C) THEN 1 ELSE 0)
        c == result > 255
        p1 == set(s.p, StatusRegister_C, c)
        r == BitAnd(result, 255)
        v == BitAnd(BitAnd(BitXor(s.a, r), 255 - BitXor(s.a, op)), 128) = 128
        p2 == set(p1, StatusRegister_C, v)
        s1 == [s EXCEPT !.p = p2, !.a = r]
    IN SetZN(s1, s1.a)

\* Cpu::inst_and
inst_and(s, op) ==
    LET s1 == [s EXCEPT !.a = BitAnd(@, op)] IN SetZN(s1, s1.a)

\* Cpu::inst_asl
inst_asl(s, op) ==
    LET s1 == [s EXCEPT !.p = set(@, StatusRegister_C, BitAnd(op, 128) = 128)]
        result == W8(op * 2)
    IN [s |-> SetZN(s1, s1.a), v |-> result]

\* Cpu::inst_bcc
inst_bcc(s, offset) ==
    IF ~contains(s.p, StatusRegister_C) THEN branch(s, offset) ELSE s

\* Cpu::inst_bcs
inst_bcs(s, offset) ==
    IF contains(s.p, StatusRegister_C) THEN branch(s, offset) ELSE s

\* Cpu::inst_beq
inst_beq(s, offset) ==
    IF contains(s.p, StatusRegister_Z) THEN branch(s, offset) ELSE s

\* Cpu::inst_bit
inst_bit(s, op) ==
    LET result == BitAnd(s.a, op)
    IN [s EXCEPT !.p = set(set(set(@, StatusRegister_Z, result = 0),
                               StatusRegister_V, BitAnd(result, 64) > 0),
                           StatusRegister_N, BitAnd(result, 128) > 0)]

\* Cpu::inst_bmi
inst_bmi(s, offset) ==
    IF contains(s.p, StatusRegister_N) THEN branch(s, offset) ELSE s

\* Cpu::inst_bne
inst_bne(s, offset) ==
    IF ~contains(s.p, StatusRegister_Z) THEN branch(s, offset) ELSE s

\* Cpu::inst_bpl
inst_bpl(s, offset) ==
    IF ~contains(s.p, StatusRegister_N) THEN branch(s, offset) ELSE s

\* the tail shared by inst_brk, irq and nmi: PC loaded from the vector at `handler`
LoadVector(s, handler) ==
    Only({ Only({ [hi.s EXCEPT !.pc = Word(lo.v, hi.v)] :
                  hi \in {CpuBus_read(lo.s, W16(handler + 1))} }) :
           lo \in {CpuBus_read(s, handler)} })

\* the status push leaving B as the live register has it
push_status_with_live_b(s, b) ==
    Only({ [stack_push(s3, s3.p) EXCEPT !.p = set(@, StatusRegister_I, TRUE)] :
           s3 \in {[s EXCEPT !.p = set(@, StatusRegister_U, TRUE)]} })

\* the status push shared by inst_brk, irq and nmi: B set to `b`, U set, the
\* status pushed, then I set
PushStatus(s, b) ==
    Only({ [stack_push(s3, s3.p) EXCEPT !.p = set(@, StatusRegister_I, TRUE)] :
           s3 \in {[s EXCEPT !.p = set(set(@, StatusRegister_B, b),
                                       StatusRegister_U, TRUE)]} })

\* the PC push shared by inst_brk, irq and nmi: high byte, then low byte
PushPc(s) ==
    Only({ stack_push(s1, BitAnd(s1.pc, 255)) :
           s1 \in {stack_push(s, BitAnd(s.pc \div 256, 255))} })

\* Cpu::inst_brk without the wrapping_add(1) that skips the operand byte
brk_without_operand_skip(s) ==
    LoadVector(PushStatus(PushPc(s), TRUE), IRQ_HANDLER)

\* Cpu::inst_brk
inst_brk(s) ==
    LoadVector(PushStatus(PushPc([s EXCEPT !.pc = W16(@ + 1)]), TRUE), IRQ_HANDLER)

\* Cpu::inst_bvc
inst_bvc(s, offset) ==
    IF ~contains(s.p, StatusRegister_V) THEN branch(s, offset) ELSE s

\* Cpu::inst_bvs
inst_bvs(s, offset) ==
    IF contains(s.p, StatusRegister_V) THEN branch(s, offset) ELSE s

\* Cpu::inst_clc
inst_clc(s) == [s EXCEPT !.p = set(@, StatusRegister_C, FALSE)]

\* Cpu::inst_cld
inst_cld(s) == [s EXCEPT !.p = set(@, StatusRegister_D, FALSE)]

\* Cpu::inst_cli
inst_cli(s) == [s EXCEPT !.p = set(@, StatusRegister_I, FALSE)]

\* Cpu::inst_clv
inst_clv(s) == [s EXCEPT !.p = set(@, StatusRegister_V, FALSE)]

\* the body shared by inst_cmp, inst_cpx, inst_cpy: compare register reg with op
Compare(s, reg, op) ==
    LET result == W8(reg + 256 - op)
    IN [s EXCEPT !.p = set(set(set(@, StatusRegister_C, reg >= op),
                               StatusRegister_Z, result = 0),
                           StatusRegister_N, BitAnd(result, 128) > 0)]

\* Cpu::inst_cmp
inst_cmp(s, op) == Compare(s, s.a, op)

\* Cpu::inst_cpx
inst_cpx(s, op) == Compare(s, s.x, op)

\* Cpu::inst_cpy
inst_cpy(s, op) == Compare(s, s.y, op)

\* Cpu::inst_dec
inst_dec(s, op) ==
    LET result == W8(op + 255) IN [s |-> SetZN(s, result), v |-> result]

\* Cpu::inst_dex
inst_dex(s) == LET s1 == [s EXCEPT !.x = W8(@ + 255)] IN SetZN(s1, s1.x)

\* Cpu::inst_dey
inst_dey(s) == LET s1 == [s EXCEPT !.y = W8(@ + 255)] IN SetZN(s1, s1.y)

\* Cpu::inst_eor
inst_eor(s, op) == LET s1 == [s EXCEPT !.a = BitXor(@, op)] IN SetZN(s1, s1.a)

\* Cpu::inst_inc
inst_inc(s, op) ==
    LET result == W8(op + 1) IN [s |-> SetZN(s, result), v |-> result]

\* Cpu::inst_inx
inst_inx(s) == LET s1 == [s EXCEPT !.x = W8(@ + 1)] IN SetZN(s1, s1.x)

\* Cpu::inst_iny
inst_iny(s) == LET s1 == [s EXCEPT !.y = W8(@ + 1)] IN SetZN(s1, s1.y)

\* Cpu::inst_jmp
inst_jmp(s, address) == [s EXCEPT !.pc = address]

\* Cpu::inst_jsr
inst_jsr(s, address) ==
    LET ret == W16(s.pc + 65535)
    IN [stack_push(stack_push(s, ret \div 256), BitAnd(ret, 255)) EXCEPT !.pc = address]

\* Cpu::inst_lda
inst_lda(s, op) == LET s1 == [s EXCEPT !.a = op] IN SetZN(s1, s1.a)

\* Cpu::inst_ldx
inst_ldx(s, op) == LET s1 == [s EXCEPT !.x = op] IN SetZN(s1, s1.x)

\* Cpu::inst_ldy
inst_ldy(s, op) == LET s1 == [s EXCEPT !.y = op] IN SetZN(s1, s1.y)

\* Cpu::inst_lsr
inst_lsr(s, op) ==
    LET s1 == [s EXCEPT !.p = set(@, StatusRegister_C, BitAnd(op, 1) > 0)]
        result == op \div 2
    IN [s |-> SetZN(s1, result), v |-> result]

\* Cpu::inst_ora
inst_ora(s, op) == LET s1 == [s EXCEPT !.a = BitOr(@, op)] IN SetZN(s1, s1.a)

\* Cpu::inst_pha
inst_pha(s) == stack_push(s, s.a)

\* Cpu::inst_php
inst_php(s) ==
    Only({ [stack_push(s1, s1.p) EXCEPT
                !.p = set(set(@, StatusRegister_B, FALSE), StatusRegister_U, FALSE)] :
           s1 \in {[s EXCEPT !.p = set(set(@, StatusRegister_B, TRUE),
                                       StatusRegister_U, TRUE)]} })

\* Cpu::inst_pla
inst_pla(s) ==
    Only({ SetZN([r.s EXCEPT !.a = r.v], r.v) : r \in {stack_pop(s)} })

\* Cpu::inst_plp
inst_plp(s) ==
    Only({ [r.s EXCEPT !.p = set(set(r.v, StatusRegister_B, FALSE),
                                 StatusRegister_U, FALSE)] :
           r \in {stack_pop(s)} })

\* Cpu::inst_rol (Z is set twice, the second time from bit 7; N is never set)
inst_rol(s, op) ==
    LET carry == contains(s.p, StatusRegister_C)
        s1 == [s EXCEPT !.p = set(@, StatusRegister_C, BitAnd(op, 128) > 0)]
        result == BitOr(W8(op * 2), IF carry THEN 1 ELSE 0)
    IN [s |-> [s1 EXCEPT !.p = set(set(@, StatusRegister_Z, result = 0),
                                   StatusRegister_Z, BitAnd(result, 128) > 0)],
        v |-> result]

\* Cpu::inst_ror (Z is set twice, the second time from bit 7; N is never set)
inst_ror(s, op) ==
    LET carry == contains(s.p, StatusRegister_C)
        s1 == [s EXCEPT !.p = set(@, StatusRegister_C, BitAnd(op, 1) > 0)]
        result == BitOr(op \div 2, IF carry THEN 128 ELSE 0)
    IN [s |-> [s1 EXCEPT !.p = set(set(@, StatusRegister_Z, result = 0),
                                   StatusRegister_Z, BitAnd(result, 128) > 0)],
        v |-> result]

\* Cpu::inst_rti returning to the address after the one pulled, as inst_rts does
rti_with_increment(s) ==
    Only({ Only({ [hi.s EXCEPT !.pc = W16(Word(lo.v, hi.v) + 1)] :
                  hi \in {stack_pop(lo.s)} }) :
           lo \in {stack_pop(Only({ [r.s EXCEPT !.p = set(set(r.v, StatusRegister_B, FALSE),
                                                          StatusRegister_U, FALSE)] :
                                    r \in {stack_pop(s)} }))} })

\* Cpu::inst_rti
inst_rti(s) ==
    Only({ Only({ [hi.s EXCEPT !.pc = Word(lo.v, hi.v)] :
                  hi \in {stack_pop(lo.s)} }) :
           lo \in {stack_pop(Only({ [r.s EXCEPT !.p = set(set(r.v, StatusRegister_B, FALSE),
                                                          StatusRegister_U, FALSE)] :
                                    r \in {stack_pop(s)} }))} })

\* Cpu::inst_rts without the wrapping_add(1)
rts_without_increment(s) ==
    Only({ Only({ [hi.s EXCEPT !.pc = Word(lo.v, hi.v)] :
                  hi \in {stack_pop(lo.s)} }) :
           lo \in {stack_pop(s)} })

\* Cpu::inst_rts
inst_rts(s) ==
    Only({ Only({ [hi.s EXCEPT !.pc = W16(Word(lo.v, hi.v) + 1)] :
                  hi \in {stack_pop(lo.s)} }) :
           lo \in {stack_pop(s)} })

\* Cpu::inst_sbc without `op ^ 0xff`: the operand is added as it is
sbc_without_complement(s, op) == inst_adc(s, op)

\* Cpu::inst_sbc
inst_sbc(s, op) == inst_adc(s, BitXor(op, 255))

\* Cpu::inst_sec
inst_sec(s) == [s EXCEPT !.p = set(@, StatusRegister_C, TRUE)]

\* Cpu::inst_sed
inst_sed(s) == [s EXCEPT !.p = set(@, StatusRegister_D, TRUE)]

\* Cpu::inst_sei
inst_sei(s) == [s EXCEPT !.p = set(@, StatusRegister_I, TRUE)]

\* Cpu::inst_sta
inst_sta(s, address) == CpuBus_write(s, address, s.a)

\* Cpu::inst_stx
inst_stx(s, address) == CpuBus_write(s, address, s.x)

\* Cpu::inst_sty
inst_sty(s, address) == CpuBus_write(s, address, s.y)

\* Cpu::inst_tax
inst_tax(s) == LET s1 == [s EXCEPT !.x = s.a] IN SetZN(s1, s1.x)

\* Cpu::inst_tay
inst_tay(s) == LET s1 == [s EXCEPT !.y = s.a] IN SetZN(s1, s1.y)

\* Cpu::inst_tsx
inst_tsx(s) == LET s1 == [s EXCEPT !.x = s.st] IN SetZN(s1, s1.x)

\* Cpu::inst_txa
inst_txa(s) == LET s1 == [s EXCEPT !.a = s.x] IN SetZN(s1, s1.a)

\* Cpu::inst_txs
inst_txs(s) == [s EXCEPT !.st = s.x]

\* Cpu::inst_tya
inst_tya(s) == LET s1 == [s EXCEPT !.a = s.y] IN SetZN(s1, s1.a)

-----------------------------------------------------------------------------
(* Opcode.  opcode.rs is not part of the sources: the table is the 6502's  *)
(* documented set with its base cycle counts (spec 4.4), plus 0x02, the    *)
(* flag read of spec 6.                                                    *)

\* Opcode::try_from(u8): the variant, or "Err"
Opcode_try_from(b) ==
    CASE b = 0 -> "Brk"
      [] b = 1 -> "OraIndX"
      [] b = 2 -> "FlagAcc"
      [] b = 5 -> "OraZp"
      [] b = 6 -> "AslZp"
      [] b = 8 -> "Php"
      [] b = 9 -> "OraImm"
      [] b = 10 -> "AslAcc"
      [] b = 13 -> "OraAbs"
      [] b = 14 -> "AslAbs"
      [] b = 16 -> "Bpl"
      [] b = 17 -> "OraIndY"
      [] b = 21 -> "OraZpX"
      [] b = 22 -> "AslZpX"
      [] b = 24 -> "Clc"
      [] b = 25 -> "OraAbsY"
      [] b = 29 -> "OraAbsX"
      [] b = 30 -> "AslAbsX"
      [] b = 32 -> "JsrAbs"
      [] b = 33 -> "AndIndX"
      [] b = 36 -> "BitZp"
      [] b = 37 -> "AndZp"
      [] b = 38 -> "RolZp"
      [] b = 40 -> "Plp"
      [] b = 41 -> "AndImm"
      [] b = 42 -> "RolAcc"
      [] b = 44 -> "BitAbs"
      [] b = 45 -> "AndAbs"
      [] b = 46 -> "RolAbs"
      [] b = 48 -> "Bmi"
      [] b = 49 -> "AndIndY"
      [] b = 53 -> "AndZpX"
      [] b = 54 -> "RolZpX"
      [] b = 56 -> "Sec"
      [] b = 57 -> "AndAbsY"
      [] b = 61 -> "AndAbsX"
      [] b = 62 -> "RolAbsX"
      [] b = 64 -> "Rti"
      [] b = 65 -> "EorIndX"
      [] b = 69 -> "EorZp"
      [] b = 70 -> "LsrZp"
      [] b = 72 -> "Pha"
      [] b = 73 -> "EorImm"
      [] b = 74 -> "LsrAcc"
      [] b = 76 -> "JmpAbs"
      [] b = 77 -> "EorAbs"
      [] b = 78 -> "LsrAbs"
      [] b = 80 -> "Bvc"
      [] b = 81 -> "EorIndY"
      [] b = 85 -> "EorZpX"
      [] b = 86 -> "LsrZpX"
      [] b = 88 -> "Cli"
      [] b = 89 -> "EorAbsY"
      [] b = 93 -> "EorAbsX"
      [] b = 94 -> "LsrAbsX"
      [] b = 96 -> "Rts"
      [] b = 97 -> "AdcIndX"
      [] b = 101 -> "AdcZp"
      [] b = 102 -> "RorZp"
      [] b = 104 -> "Pla"
      [] b = 105 -> "AdcImm"
      [] b = 106 -> "RorAcc"
      [] b = 108 -> "JmpInd"
      [] b = 109 -> "AdcAbs"
      [] b = 110 -> "RorAbs"
      [] b = 112 -> "Bvs"
      [] b = 113 -> "AdcIndY"
      [] b = 117 -> "AdcZpX"
      [] b = 118 -> "RorZpX"
      [] b = 120 -> "Sei"
      [] b = 121 -> "AdcAbsY"
      [] b = 125 -> "AdcAbsX"
      [] b = 126 -> "RorAbsX"
      [] b = 129 -> "StaIndX"
      [] b = 132 -> "StyZp"
      [] b = 133 -> "StaZp"
      [] b = 134 -> "StxZp"
      [] b = 136 -> "Dey"
      [] b = 138 -> "Txa"
      [] b = 140 -> "StyAbs"
      [] b = 141 -> "StaAbs"
      [] b = 142 -> "StxAbs"
      [] b = 144 -> "Bcc"
      [] b = 145 -> "StaIndY"
      [] b = 148 -> "StyZpX"
      [] b = 149 -> "StaZpX"
      [] b = 150 -> "StxZpY"
      [] b = 152 -> "Tya"
      [] b = 153 -> "StaAbsY"
      [] b = 154 -> "Txs"
      [] b = 157 -> "StaAbsX"
      [] b = 160 -> "LdyImm"
      [] b = 161 -> "LdaIndX"
      [] b = 162 -> "LdxImm"
      [] b = 164 -> "LdyZp"
      [] b = 165 -> "LdaZp"
      [] b = 166 -> "LdxZp"
      [] b = 168 -> "Tay"
      [] b = 169 -> "LdaImm"
      [] b = 170 -> "Tax"
      [] b = 172 -> "LdyAbs"
      [] b = 173 -> "LdaAbs"
      [] b = 174 -> "LdxAbs"
      [] b = 176 -> "Bcs"
      [] b = 177 -> "LdaIndY"
      [] b = 180 -> "LdyZpX"
      [] b = 181 -> "LdaZpX"
      [] b = 182 -> "LdxZpY"
      [] b = 184 -> "Clv"
      [] b = 185 -> "LdaAbsY"
      [] b = 186 -> "Tsx"
      [] b = 188 -> "LdyAbsX"
      [] b = 189 -> "LdaAbsX"
      [] b = 190 -> "LdxAbsY"
      [] b = 192 -> "CpyImm"
      [] b = 193 -> "CmpIndX"
      [] b = 196 -> "CpyZp"
      [] b = 197 -> "CmpZp"
      [] b = 198 -> "DecZp"
      [] b = 200 -> "Iny"
      [] b = 201 -> "CmpImm"
      [] b = 202 -> "Dex"
      [] b = 204 -> "CpyAbs"
      [] b = 205 -> "CmpAbs"
      [] b = 206 -> "DecAbs"
      [] b = 208 -> "Bne"
      [] b = 209 -> "CmpIndY"
      [] b = 213 -> "CmpZpX"
      [] b = 214 -> "DecZpX"
      [] b = 216 -> "Cld"
      [] b = 217 -> "CmpAbsY"
      [] b = 221 -> "CmpAbsX"
      [] b = 222 -> "DecAbsX"
      [] b = 224 -> "CpxImm"
      [] b = 225 -> "SbcIndX"
      [] b = 228 -> "CpxZp"
      [] b = 229 -> "SbcZp"
      [] b = 230 -> "IncZp"
      [] b = 232 -> "Inx"
      [] b = 233 -> "SbcImm"
      [] b = 234 -> "Nop"
      [] b = 236 -> "CpxAbs"
      [] b = 237 -> "SbcAbs"
      [] b = 238 -> "IncAbs"
      [] b = 240 -> "Beq"
      [] b = 241 -> "SbcIndY"
      [] b = 245 -> "SbcZpX"
      [] b = 246 -> "IncZpX"
      [] b = 248 -> "Sed"
      [] b = 249 -> "SbcAbsY"
      [] b = 253 -> "SbcAbsX"
      [] b = 254 -> "IncAbsX"
      [] OTHER -> "Err"

\* Opcode::cycles
Opcode_cycles(o) ==
    IF o \in {"FlagAcc", "OraImm", "AslAcc", "Bpl", "Clc", "AndImm", "RolAcc", "Bmi",
          "Sec", "EorImm", "LsrAcc", "Bvc", "Cli", "AdcImm", "RorAcc", "Bvs", "Sei",
          "Dey", "Txa", "Bcc", "Tya", "Txs", "LdyImm", "LdxImm", "Tay", "LdaImm",
          "Tax", "Bcs", "Clv", "Tsx", "CpyImm", "Iny", "CmpImm", "Dex", "Bne", "Cld",
          "CpxImm", "Inx", "SbcImm", "Nop", "Beq", "Sed"}
    THEN 2
    ELSE IF o \in {"OraZp", "Php", "BitZp", "AndZp", "EorZp", "Pha", "JmpAbs", "AdcZp",
          "StyZp", "StaZp", "StxZp", "LdyZp", "LdaZp", "LdxZp", "CpyZp", "CmpZp",
          "CpxZp", "SbcZp"}
    THEN 3
    ELSE IF o \in {"OraAbs", "OraZpX", "OraAbsY", "OraAbsX", "Plp", "BitAbs", "AndAbs",
          "AndZpX", "AndAbsY", "AndAbsX", "EorAbs", "EorZpX", "EorAbsY", "EorAbsX",
          "Pla", "AdcAbs", "AdcZpX", "AdcAbsY", "AdcAbsX", "StyAbs", "StaAbs",
          "StxAbs", "StyZpX", "StaZpX", "StxZpY", "LdyAbs", "LdaAbs", "LdxAbs",
          "LdyZpX", "LdaZpX", "LdxZpY", "LdaAbsY", "LdyAbsX", "LdaAbsX", "LdxAbsY",
          "CpyAbs", "CmpAbs", "CmpZpX", "CmpAbsY", "CmpAbsX", "CpxAbs", "SbcAbs",
          "SbcZpX", "SbcAbsY", "SbcAbsX"}
    THEN 4
    ELSE IF o \in {"AslZp", "OraIndY", "RolZp", "AndIndY", "LsrZp", "EorIndY", "RorZp",
          "JmpInd", "AdcIndY", "StaAbsY", "StaAbsX", "LdaIndY", "DecZp", "CmpIndY",
          "IncZp", "SbcIndY"}
    THEN 5
    ELSE IF o \in {"OraIndX", "AslAbs", "AslZpX", "JsrAbs", "AndIndX", "RolAbs", "RolZpX",
          "Rti", "EorIndX", "LsrAbs", "LsrZpX", "Rts", "AdcIndX", "RorAbs", "RorZpX",
          "StaIndX", "StaIndY", "LdaIndX", "CmpIndX", "DecAbs", "DecZpX", "SbcIndX",
          "IncAbs", "IncZpX"}
    THEN 6
    ELSE 7

\* the embedded arrays (flags/*.txt are not part of the sources)
FLAG3 == <<70, 76, 65, 71, 51>>
FLAG4 == <<102, 108, 97, 103, 45, 52>>

-----------------------------------------------------------------------------
(* Cpu::clock: the arms of `match &opcode` *)

\* `let op = bus.read(addr)` after an addressing mode r = [s, addr]: [s, v]
Operand(r) == CpuBus_read(r.s, r.addr)

\* `if extra_cycle { self.cycles += 1 }; let op = bus.read(addr)` after an
\* indexed addressing mode r = [s, addr, extra]
OperandX(r) ==
    CpuBus_read(IF r.extra THEN [r.s EXCEPT !.cycles = @ + 1] ELSE r.s, r.addr)

\* `bus.write(addr, result)`, res = [s, v] being what the instruction returned
WriteBack(addr, res) == CpuBus_write(res.s, addr, res.v)

\* `self.a = self.inst_xxx(self.a)`, res = [s, v] being what the instruction returned
ToA(res) == [res.s EXCEPT !.a = res.v]

\* Opcode::FlagAcc reading FLAG3 in both execution modes
flag_acc_ring0_only(s) ==
    [s EXCEPT !.a = FLAG3[(s.a % Len(FLAG3)) + 1]]

\* Opcode::FlagAcc reading the array of the other mode
flag_acc_other_ring(s) ==
    LET flag == IF execution_mode = "Ring0" THEN s.flag4 ELSE s.flag3
        index == s.a % Len(flag)
    IN [s EXCEPT !.a = flag[index + 1]]

\* Opcode::FlagAcc.  The two arrays are statics of the program; the record
\* carries them (flag3, flag4) so that a run with other contents can be made.
FlagAcc(s) ==
    LET flag == IF execution_mode = "Ring0" THEN s.flag3 ELSE s.flag4
        index == s.a % Len(flag)
    IN [s EXCEPT !.a = flag[index + 1]]

\* Cpu::clock, `match &opcode`: one arm per opcode, in the order of the source
Exec(s, opc) ==
    CASE opc = "Brk" -> inst_brk(s)
      [] opc = "OraIndX" -> Only({ inst_ora(m.s, m.v) : m \in {Operand(am_izx(s))} })
      [] opc = "OraZp" -> Only({ inst_ora(m.s, m.v) : m \in {Operand(am_zp(s))} })
      [] opc = "AslZp" -> Only({ WriteBack(r.addr, Only({ inst_asl(m.s, m.v) : m \in {Operand(r)} })) :
                   r \in {am_zp(s)} })
      [] opc = "Php" -> inst_php(s)
      [] opc = "OraImm" -> Only({ inst_ora(m.s, m.v) : m \in {am_imm(s)} })
      [] opc = "AslAcc" -> ToA(inst_asl(s, s.a))
      [] opc = "OraAbs" -> Only({ inst_ora(m.s, m.v) : m \in {Operand(am_abs(s))} })
      [] opc = "AslAbs" -> Only({ WriteBack(r.addr, Only({ inst_asl(m.s, m.v) : m \in {Operand(r)} })) :
                   r \in {am_abs(s)} })
      [] opc = "Bpl" -> Only({ inst_bpl(r.s, r.addr) : r \in {am_rel(s)} })
      [] opc = "OraIndY" -> Only({ inst_ora(m.s, m.v) : m \in {OperandX(am_izy(s))} })
      [] opc = "OraZpX" -> Only({ inst_ora(m.s, m.v) : m \in {Operand(am_zpx(s))} })
      [] opc = "AslZpX" -> Only({ WriteBack(r.addr, Only({ inst_asl(m.s, m.v) : m \in {Operand(r)} })) :
                   r \in {am_zpx(s)} })
      [] opc = "Clc" -> inst_clc(s)
      [] opc = "OraAbsY" -> Only({ inst_ora(m.s, m.v) : m \in {OperandX(am_aby(s))} })
      [] opc = "OraAbsX" -> Only({ inst_ora(m.s, m.v) : m \in {OperandX(am_abx(s))} })
      [] opc = "AslAbsX" -> Only({ WriteBack(r.addr, Only({ inst_asl(m.s, m.v) : m \in {Operand(r)} })) :
                   r \in {am_abx(s)} })
      [] opc = "JsrAbs" -> Only({ inst_jsr(r.s, r.addr) : r \in {am_abs(s)} })
      [] opc = "AndIndX" -> Only({ inst_and(m.s, m.v) : m \in {Operand(am_izx(s))} })
      [] opc = "BitZp" -> Only({ inst_bit(m.s, m.v) : m \in {Operand(am_zp(s))} })
      [] opc = "AndZp" -> Only({ inst_and(m.s, m.v) : m \in {Operand(am_zp(s))} })
      [] opc = "RolZp" -> Only({ WriteBack(r.addr, Only({ inst_rol(m.s, m.v) : m \in {Operand(r)} })) :
                   r \in {am_zp(s)} })
      [] opc = "Plp" -> inst_plp(s)
      [] opc = "AndImm" -> Only({ inst_and(m.s, m.v) : m \in {am_imm(s)} })
      [] opc = "RolAcc" -> ToA(inst_rol(s, s.a))
      [] opc = "BitAbs" -> Only({ inst_bit(m.s, m.v) : m \in {Operand(am_abs(s))} })
      [] opc = "AndAbs" -> Only({ inst_and(m.s, m.v) : m \in {Operand(am_abs(s))} })
      [] opc = "RolAbs" -> Only({ WriteBack(r.addr, Only({ inst_rol(m.s, m.v) : m \in {Operand(r)} })) :
                   r \in {am_abs(s)} })
      [] opc = "Bmi" -> Only({ inst_bmi(r.s, r.addr) : r \in {am_rel(s)} })
      [] opc = "AndIndY" -> Only({ inst_and(m.s, m.v) : m \in {OperandX(am_izy(s))} })
      [] opc = "AndZpX" -> Only({ inst_and(m.s, m.v) : m \in {Operand(am_zpx(s))} })
      [] opc = "RolZpX" -> Only({ WriteBack(r.addr, Only({ inst_rol(m.s, m.v) : m \in {Operand(r)} })) :
                   r \in {am_zpx(s)} })
      [] opc = "Sec" -> inst_sec(s)
      [] opc = "AndAbsY" -> Only({ inst_and(m.s, m.v) : m \in {OperandX(am_aby(s))} })
      [] opc = "AndAbsX" -> Only({ inst_and(m.s, m.v) : m \in {OperandX(am_abx(s))} })
      [] opc = "RolAbsX" -> Only({ WriteBack(r.addr, Only({ inst_rol(m.s, m.v) : m \in {Operand(r)} })) :
                   r \in {am_abx(s)} })
      [] opc = "Rti" -> inst_rti(s)
      [] opc = "EorIndX" -> Only({ inst_eor(m.s, m.v) : m \in {Operand(am_izx(s))} })
      [] opc = "EorZp" -> Only({ inst_eor(m.s, m.v) : m \in {Operand(am_zp(s))} })
      [] opc = "LsrZp" -> Only({ WriteBack(r.addr, Only({ inst_lsr(m.s, m.v) : m \in {Operand(r)} })) :
                   r \in {am_zp(s)} })
      [] opc = "Pha" -> inst_pha(s)
      [] opc = "EorImm" -> Only({ inst_eor(m.s, m.v) : m \in {am_imm(s)} })
      [] opc = "LsrAcc" -> ToA(inst_lsr(s, s.a))
      [] opc = "JmpAbs" -> Only({ inst_jmp(r.s, r.addr) : r \in {am_abs(s)} })
      [] opc = "EorAbs" -> Only({ inst_eor(m.s, m.v) : m \in {Operand(am_abs(s))} })
      [] opc = "LsrAbs" -> Only({ WriteBack(r.addr, Only({ inst_lsr(m.s, m.v) : m \in {Operand(r)} })) :
                   r \in {am_abs(s)} })
      [] opc = "Bvc" -> Only({ inst_bvc(r.s, r.addr) : r \in {am_rel(s)} })
      [] opc = "EorIndY" -> Only({ inst_eor(m.s, m.v) : m \in {OperandX(am_izy(s))} })
      [] opc = "EorZpX" -> Only({ inst_eor(m.s, m.v) : m \in {Operand(am_zpx(s))} })
      [] opc = "LsrZpX" -> Only({ WriteBack(r.addr, Only({ inst_lsr(m.s, m.v) : m \in {Operand(r)} })) :
                   r \in {am_zpx(s)} })
      [] opc = "Cli" -> inst_cli(s)
      [] opc = "EorAbsY" -> Only({ inst_eor(m.s, m.v) : m \in {OperandX(am_aby(s))} })
      [] opc = "EorAbsX" -> Only({ inst_eor(m.s, m.v) : m \in {OperandX(am_abx(s))} })
      [] opc = "LsrAbsX" -> Only({ WriteBack(r.addr, Only({ inst_lsr(m.s, m.v) : m \in {Operand(r)} })) :
                   r \in {am_abx(s)} })
      [] opc = "Rts" -> inst_rts(s)
      [] opc = "AdcIndX" -> Only({ inst_adc(m.s, m.v) : m \in {Operand(am_izx(s))} })
      [] opc = "AdcZp" -> Only({ inst_adc(m.s, m.v) : m \in {Operand(am_zp(s))} })
      [] opc = "RorZp" -> Only({ WriteBack(r.addr, Only({ inst_ror(m.s, m.v) : m \in {Operand(r)} })) :
                   r \in {am_zp(s)} })
      [] opc = "Pla" -> inst_pla(s)
      [] opc = "AdcImm" -> Only({ inst_adc(m.s, m.v) : m \in {am_imm(s)} })
      [] opc = "RorAcc" -> ToA(inst_ror(s, s.a))
      [] opc = "JmpInd" -> Only({ inst_jmp(r.s, r.addr) : r \in {am_ind(s)} })
      [] opc = "AdcAbs" -> Only({ inst_adc(m.s, m.v) : m \in {Operand(am_abs(s))} })
      [] opc = "RorAbs" -> Only({ WriteBack(r.addr, Only({ inst_ror(m.s, m.v) : m \in {Operand(r)} })) :
                   r \in {am_abs(s)} })
      [] opc = "Bvs" -> Only({ inst_bvs(r.s, r.addr) : r \in {am_rel(s)} })
      [] opc = "AdcIndY" -> Only({ inst_adc(m.s, m.v) : m \in {OperandX(am_izy(s))} })
      [] opc = "AdcZpX" -> Only({ inst_adc(m.s, m.v) : m \in {Operand(am_zpx(s))} })
      [] opc = "RorZpX" -> Only({ WriteBack(r.addr, Only({ inst_ror(m.s, m.v) : m \in {Operand(r)} })) :
                   r \in {am_zpx(s)} })
      [] opc = "Sei" -> inst_sei(s)
      [] opc = "AdcAbsY" -> Only({ inst_adc(m.s, m.v) : m \in {OperandX(am_aby(s))} })
      [] opc = "AdcAbsX" -> Only({ inst_adc(m.s, m.v) : m \in {OperandX(am_abx(s))} })
      [] opc = "RorAbsX" -> Only({ inst_ror(m.s, m.v).s : m \in {Operand(am_abx(s))} })
      [] opc = "FlagAcc" -> FlagAcc(s)
      [] opc = "StaIndX" -> Only({ inst_sta(r.s, r.addr) : r \in {am_izx(s)} })
      [] opc = "StyZp" -> Only({ inst_sty(r.s, r.addr) : r \in {am_zp(s)} })
      [] opc = "StaZp" -> Only({ inst_sta(r.s, r.addr) : r \in {am_zp(s)} })
      [] opc = "StxZp" -> Only({ inst_stx(r.s, r.addr) : r \in {am_zp(s)} })
      [] opc = "Dey" -> inst_dey(s)
      [] opc = "Txa" -> inst_txa(s)
      [] opc = "StyAbs" -> Only({ inst_sty(r.s, r.addr) : r \in {am_abs(s)} })
      [] opc = "StaAbs" -> Only({ inst_sta(r.s, r.addr) : r \in {am_abs(s)} })
      [] opc = "StxAbs" -> Only({ inst_stx(r.s, r.addr) : r \in {am_abs(s)} })
      [] opc = "Bcc" -> Only({ inst_bcc(r.s, r.addr) : r \in {am_rel(s)} })
      [] opc = "StaIndY" -> Only({ inst_sta(r.s, r.addr) : r \in {am_izy(s)} })
      [] opc = "StyZpX" -> Only({ inst_sty(r.s, r.addr) : r \in {am_zpx(s)} })
      [] opc = "StaZpX" -> Only({ inst_sta(r.s, r.addr) : r \in {am_zpx(s)} })
      [] opc = "StxZpY" -> Only({ inst_stx(r.s, r.addr) : r \in {am_zpy(s)} })
      [] opc = "Tya" -> inst_tya(s)
      [] opc = "StaAbsY" -> Only({ inst_sta(r.s, r.addr) : r \in {am_aby(s)} })
      [] opc = "Txs" -> inst_txs(s)
      [] opc = "StaAbsX" -> Only({ inst_sta(r.s, r.addr) : r \in {am_abx(s)} })
      [] opc = "LdyImm" -> Only({ inst_ldy(m.s, m.v) : m \in {am_imm(s)} })
      [] opc = "LdaIndX" -> Only({ inst_lda(m.s, m.v) : m \in {Operand(am_izx(s))} })
      [] opc = "LdxImm" -> Only({ inst_ldx(m.s, m.v) : m \in {am_imm(s)} })
      [] opc = "LdyZp" -> Only({ inst_ldy(m.s, m.v) : m \in {Operand(am_zp(s))} })
      [] opc = "LdaZp" -> Only({ inst_lda(m.s, m.v) : m \in {Operand(am_zp(s))} })
      [] opc = "LdxZp" -> Only({ inst_ldx(m.s, m.v) : m \in {Operand(am_zp(s))} })
      [] opc = "Tay" -> inst_tay(s)
      [] opc = "LdaImm" -> Only({ inst_lda(m.s, m.v) : m \in {am_imm(s)} })
      [] opc = "Tax" -> inst_tax(s)
      [] opc = "LdyAbs" -> Only({ inst_ldy(m.s, m.v) : m \in {Operand(am_abs(s))} })
      [] opc = "LdaAbs" -> Only({ inst_lda(m.s, m.v) : m \in {Operand(am_abs(s))} })
      [] opc = "LdxAbs" -> Only({ inst_ldx(m.s, m.v) : m \in {Operand(am_abs(s))} })
      [] opc = "Bcs" -> Only({ inst_bcs(r.s, r.addr) : r \in {am_rel(s)} })
      [] opc = "LdaIndY" -> Only({ inst_lda(m.s, m.v) : m \in {OperandX(am_izy(s))} })
      [] opc = "LdyZpX" -> Only({ inst_ldy(m.s, m.v) : m \in {Operand(am_zpx(s))} })
      [] opc = "LdaZpX" -> Only({ inst_lda(m.s, m.v) : m \in {Operand(am_zpx(s))} })
      [] opc = "LdxZpY" -> Only({ inst_ldx(m.s, m.v) : m \in {Operand(am_zpy(s))} })
      [] opc = "Clv" -> inst_clv(s)
      [] opc = "LdaAbsY" -> Only({ inst_lda(m.s, m.v) : m \in {OperandX(am_aby(s))} })
      [] opc = "Tsx" -> inst_tsx(s)
      [] opc = "LdyAbsX" -> Only({ inst_ldy(m.s, m.v) : m \in {OperandX(am_abx(s))} })
      [] opc = "LdaAbsX" -> Only({ inst_lda(m.s, m.v) : m \in {OperandX(am_abx(s))} })
      [] opc = "LdxAbsY" -> Only({ inst_ldx(m.s, m.v) : m \in {OperandX(am_aby(s))} })
      [] opc = "CpyImm" -> Only({ inst_cpy(m.s, m.v) : m \in {am_imm(s)} })
      [] opc = "CmpIndX" -> Only({ inst_cmp(m.s, m.v) : m \in {Operand(am_izx(s))} })
      [] opc = "CpyZp" -> Only({ inst_cpy(m.s, m.v) : m \in {Operand(am_zp(s))} })
      [] opc = "CmpZp" -> Only({ inst_cmp(m.s, m.v) : m \in {Operand(am_izx(s))} })
      [] opc = "DecZp" -> Only({ WriteBack(r.addr, Only({ inst_dec(m.s, m.v) : m \in {Operand(r)} })) :
                   r \in {am_zp(s)} })
      [] opc = "Iny" -> inst_iny(s)
      [] opc = "CmpImm" -> Only({ inst_cmp(m.s, m.v) : m \in {am_imm(s)} })
      [] opc = "Dex" -> inst_dex(s)
      [] opc = "CpyAbs" -> Only({ inst_cpy(m.s, m.v) : m \in {Operand(am_abs(s))} })
      [] opc = "CmpAbs" -> Only({ inst_cmp(m.s, m.v) : m \in {Operand(am_abs(s))} })
      [] opc = "DecAbs" -> Only({ WriteBack(r.addr, Only({ inst_dec(m.s, m.v) : m \in {Operand(r)} })) :
                   r \in {am_abs(s)} })
      [] opc = "Bne" -> Only({ inst_bne(r.s, r.addr) : r \in {am_rel(s)} })
      [] opc = "CmpIndY" -> Only({ inst_cmp(m.s, m.v) : m \in {OperandX(am_izy(s))} })
      [] opc = "CmpZpX" -> Only({ inst_cmp(m.s, m.v) : m \in {Operand(am_zpx(s))} })
      [] opc = "DecZpX" -> Only({ WriteBack(r.addr, Only({ inst_dec(m.s, m.v) : m \in {Operand(r)} })) :
                   r \in {am_zpx(s)} })
      [] opc = "Cld" -> inst_cld(s)
      [] opc = "CmpAbsY" -> Only({ inst_cmp(m.s, m.v) : m \in {OperandX(am_aby(s))} })
      [] opc = "CmpAbsX" -> Only({ inst_cmp(m.s, m.v) : m \in {OperandX(am_abx(s))} })
      [] opc = "DecAbsX" -> Only({ WriteBack(r.addr, Only({ inst_dec(m.s, m.v) : m \in {Operand(r)} })) :
                   r \in {am_abx(s)} })
      [] opc = "CpxImm" -> Only({ inst_cpx(m.s, m.v) : m \in {am_imm(s)} })
      [] opc = "SbcIndX" -> Only({ inst_sbc(m.s, m.v) : m \in {Operand(am_izx(s))} })
      [] opc = "CpxZp" -> Only({ inst_cpx(m.s, m.v) : m \in {Operand(am_zp(s))} })
      [] opc = "SbcZp" -> Only({ inst_sbc(m.s, m.v) : m \in {Operand(am_zp(s))} })
      [] opc = "IncZp" -> Only({ WriteBack(r.addr, Only({ inst_inc(m.s, m.v) : m \in {Operand(r)} })) :
                   r \in {am_zp(s)} })
      [] opc = "Inx" -> inst_inx(s)
      [] opc = "SbcImm" -> Only({ inst_sbc(m.s, m.v) : m \in {am_imm(s)} })
      [] opc = "Nop" -> s
      [] opc = "CpxAbs" -> Only({ inst_cpx(m.s, m.v) : m \in {Operand(am_abs(s))} })
      [] opc = "SbcAbs" -> Only({ inst_sbc(m.s, m.v) : m \in {Operand(am_abs(s))} })
      [] opc = "IncAbs" -> Only({ WriteBack(r.addr, Only({ inst_inc(m.s, m.v) : m \in {Operand(r)} })) :
                   r \in {am_abs(s)} })
      [] opc = "Beq" -> Only({ inst_beq(r.s, r.addr) : r \in {am_rel(s)} })
      [] opc = "SbcIndY" -> Only({ inst_sbc(m.s, m.v) : m \in {OperandX(am_izy(s))} })
      [] opc = "SbcZpX" -> Only({ inst_sbc(m.s, m.v) : m \in {Operand(am_zpx(s))} })
      [] opc = "IncZpX" -> Only({ WriteBack(r.addr, Only({ inst_inc(m.s, m.v) : m \in {Operand(r)} })) :
                   r \in {am_zpx(s)} })
      [] opc = "Sed" -> inst_sed(s)
      [] opc = "SbcAbsY" -> Only({ inst_sbc(m.s, m.v) : m \in {OperandX(am_aby(s))} })
      [] opc = "SbcAbsX" -> Only({ inst_sbc(m.s, m.v) : m \in {OperandX(am_abx(s))} })
      [] opc = "IncAbsX" -> Only({ WriteBack(r.addr, Only({ inst_inc(m.s, m.v) : m \in {Operand(r)} })) :
                   r \in {am_abx(s)} })

-----------------------------------------------------------------------------
(* Cpu: new, reset, irq, nmi, clock *)

\* Cpu::reset with the status the 6502 documents after a reset: U and I
reset_interrupt_disable(s) ==
    Only({ Only({ [hi.s EXCEPT !.pc = Word(lo.v, hi.v)] :
                  hi \in {CpuBus_read(lo.s, PC_START + 1)} }) :
           lo \in {CpuBus_read([s EXCEPT !.a = 0, !.x = 0, !.y = 0, !.st = 253,
                                         !.cycles = 8,
                                         !.p = BitOr(StatusRegister_I, StatusRegister_U)],
                               PC_START)} })

\* Cpu::reset
reset(s) ==
    Only({ Only({ [hi.s EXCEPT !.pc = Word(lo.v, hi.v)] :
                  hi \in {CpuBus_read(lo.s, PC_START + 1)} }) :
           lo \in {CpuBus_read([s EXCEPT !.a = 0, !.x = 0, !.y = 0, !.st = 253,
                                         !.cycles = 8,
                                         !.p = BitOr(0, StatusRegister_U)],
                               PC_START)} })

\* Cpu::irq without the test of the I flag
irq_unmasked(s) ==
    [LoadVector(PushStatus(PushPc(s), FALSE), IRQ_HANDLER) EXCEPT !.cycles = 7]

\* Cpu::irq with `self.cycles += 7` in place of `self.cycles = 7`
irq_adds_cycles(s) ==
    IF ~contains(s.p, StatusRegister_I)
    THEN [LoadVector(PushStatus(PushPc(s), FALSE), IRQ_HANDLER) EXCEPT !.cycles = @ + 7]
    ELSE s

\* Cpu::irq
irq(s) ==
    IF ~contains(s.p, StatusRegister_I)
    THEN [LoadVector(PushStatus(PushPc(s), FALSE), IRQ_HANDLER) EXCEPT !.cycles = 7]
    ELSE s

\* Cpu::nmi masked by the I flag, as irq is
nmi_masked(s) ==
    IF ~contains(s.p, StatusRegister_I)
    THEN [LoadVector(PushStatus(PushPc(s), FALSE), NMI_HANDLER) EXCEPT !.cycles = 7]
    ELSE s

\* Cpu::nmi
nmi(s) ==
    [LoadVector(PushStatus(PushPc(s), FALSE), NMI_HANDLER) EXCEPT !.cycles = 7]

\* Cpu::clock decoding an unknown byte as BRK instead of NOP
decode_unknown_as_brk(b) == IF Opcode_try_from(b) = "Err" THEN "Brk" ELSE Opcode_try_from(b)

\* `match Opcode::try_from(bus.read(self.pc))`: an unknown byte runs as Nop
Decode(b) == IF Opcode_try_from(b) = "Err" THEN "Nop" ELSE Opcode_try_from(b)

\* Cpu::clock without `self.cycles += opcode.cycles()`: the decrement that
\* follows finds the counter at what the arm added, 0 for most opcodes
fetch_execute_without_base_cycles(s, warn) ==
    Only({ Only({ [s3 EXCEPT !.penalty = s3.cycles] :
                  s3 \in {Exec([(IF Opcode_try_from(fetch.v) = "Err" /\ warn
                                 THEN CpuBus_read(fetch.s, fetch.s.pc).s
                                 ELSE fetch.s)
                                   EXCEPT !.pc = W16(@ + 1),
                                          !.opcode = Decode(fetch.v)],
                               Decode(fetch.v))} }) :
           fetch \in {CpuBus_read(s, s.pc)} })

\* Cpu::clock, the body of `if self.cycles == 0`: fetch, decode, run the arm,
\* add the opcode's base cycles.  `warn`: the log crate evaluates the
\* warning's argument, a second bus.read(self.pc), only when warnings are
\* enabled.  penalty keeps what the arm itself added to the cycles.
fetch_execute(s, warn) ==
    Only({ Only({ [s3 EXCEPT !.penalty = s3.cycles,
                             !.cycles = @ + Opcode_cycles(s3.opcode)] :
                  s3 \in {Exec([(IF Opcode_try_from(fetch.v) = "Err" /\ warn
                                 THEN CpuBus_read(fetch.s, fetch.s.pc).s
                                 ELSE fetch.s)
                                   EXCEPT !.pc = W16(@ + 1),
                                          !.opcode = Decode(fetch.v)],
                               Decode(fetch.v))} }) :
           fetch \in {CpuBus_read(s, s.pc)} })

\* Cpu::clock with the decrement in an else branch: an executing call keeps
\* the whole cost of its instruction
clock_decrement_when_idle(s, warn) ==
    IF s.cycles = 0 THEN fetch_execute(s, warn) ELSE [s EXCEPT !.cycles = @ - 1]

\* Cpu::clock without the test of the cycle debt: every call executes
clock_every_call(s, warn) ==
    [fetch_execute(s, warn) EXCEPT !.cycles = @ - 1]

\* Cpu::clock without the decrement on an idle call: a positive cycle debt
\* is never paid
clock_without_idle_decrement(s, warn) ==
    IF s.cycles = 0 THEN [fetch_execute(s, warn) EXCEPT !.cycles = @ - 1] ELSE s

\* Cpu::clock
clock(s, warn) ==
    [(IF s.cycles = 0 THEN fetch_execute(s, warn) ELSE s) EXCEPT !.cycles = @ - 1]

-----------------------------------------------------------------------------
(* ROM images the CPU runs *)

\* bytes placed from index `at` on
Place(at, bytes) == [i \in at..(at + Len(bytes) - 1) |-> bytes[i - at + 1]]

\* the index in the ROM file of the byte the CPU reads at `addr` (one 16 KiB
\* PRG bank, no trainer)
FileAt(addr) == 16 + BitAnd(addr, 16383)

\* an NROM image: one PRG bank of NOPs (0xEA) with `code` on top, CHR-RAM
NromImage(code) ==
    [len |-> 16 + PRG_BANK_SIZE,
     hdr |-> <<78, 69, 83, 26, 1, 0, 0, 0, 0, 0, 0, 0, 0, 0, 0, 0>>,
     fill |-> 234,
     body |-> code]

\* the vectors: NMI, RESET, IRQ/BRK handler addresses
Vectors(nmi_at, reset_at, irq_at) ==
    Place(FileAt(NMI_HANDLER),
          <<nmi_at % 256, nmi_at \div 256, reset_at % 256, reset_at \div 256,
            irq_at % 256, irq_at \div 256>>)

\* RESET: LDX #$FF; TXS; LDA #$80; PHA; PLA; CLI.  IRQ: PHP; PLP; SEC; RTI.
\* NMI: NOPs
StackProgram ==
    NromImage(Vectors(36864, 32768, 40960)
              @@ Place(FileAt(32768), <<162, 255, 154, 169, 128, 72, 104, 88>>)
              @@ Place(FileAt(40960), <<8, 40, 56, 64>>))

\* RESET at $80FA: LDA #$00; BEQ +4 (taken, to $8102, across a page); at
\* $8102: BNE +2 (not taken).  IRQ: LDX #$01; LDA $80FF,X (page crossed);
\* STA $02FF,X; INC $0300; LDA $8000,X.  NMI at $9000: BIT $10; JMP $9000
BranchProgram ==
    NromImage(Vectors(36864, 33018, 40960)
              @@ Place(FileAt(33018), <<169, 0, 240, 4>>)
              @@ Place(FileAt(33026), <<208, 2>>)
              @@ Place(FileAt(36864), <<36, 16, 76, 0, 144>>)
              @@ Place(FileAt(40960),
                       <<162, 1, 189, 255, 128, 157, 255, 2, 238, 0, 3, 189, 0, 128>>))

\* RESET: $FF (no opcode); $02 (flag read); JSR $8010; at $8010: RTS.
\* IRQ: LDA #$07; $02 (flag read); STA $10; JMP ($0010).  NMI: $03 (no opcode)
FlagProgram ==
    NromImage(Vectors(36864, 32768, 40960)
              @@ Place(FileAt(32768), <<255, 2, 32, 16, 128>>)
              @@ Place(FileAt(32784), <<96>>)
              @@ Place(FileAt(36864), <<3>>)
              @@ Place(FileAt(40960), <<169, 7, 2, 133, 16, 108, 16, 0>>))

\* RESET at $80FC: LDA #$00; BEQ +4 (opcode at $80FE, taken, to $8104 in the
\* page of the next instruction).  IRQ: RTI.  NMI at $9000: RTI
ReturnProgram ==
    NromImage(Vectors(36864, 33020, 40960)
              @@ Place(FileAt(33020), <<169, 0, 240, 4>>)
              @@ Place(FileAt(36864), <<64>>)
              @@ Place(FileAt(40960), <<64>>))

Programs == {StackProgram, BranchProgram, FlagProgram, ReturnProgram}

-----------------------------------------------------------------------------
(* The CPU as a state machine: the host calls reset, clock, irq, nmi *)

\* the Cpu and the RAM as the record the helpers thread
Cur ==
    [a |-> a, x |-> x, y |-> y, st |-> st, pc |-> pc, cycles |-> cycles,
     p |-> status_register, ram |-> ram, log |-> <<>>, opcode |-> "none",
     penalty |-> 0, flag3 |-> FLAG3, flag4 |-> FLAG4]

\* the state an operation `name` leaves, s being what the code computed
Commit(s, name, cost) ==
    /\ a' = s.a
    /\ x' = s.x
    /\ y' = s.y
    /\ st' = s.st
    /\ pc' = s.pc
    /\ cycles' = s.cycles
    /\ status_register' = s.p
    /\ ram' = s.ram
    /\ log' = s.log
    /\ opcode' = s.opcode
    /\ penalty' = s.penalty
    /\ call' = name
    /\ owed' = cycles
    /\ budget' = budget - cost
    /\ UNCHANGED <<execution_mode, cart_vars, origin>>

\* the registers an operation `op` is entered with
Before(op) == [op |-> op, a |-> a, st |-> st, pc |-> pc, p |-> status_register]

\* Cpu::new(execution_mode) on a bus with cleared RAM
CpuNew ==
    /\ a = 0
    /\ x = 0
    /\ y = 0
    /\ st = 0
    /\ pc = 0
    /\ cycles = 0
    /\ status_register = 0
    /\ execution_mode \in {"Ring0", "Ring3"}

GhostStart ==
    /\ call = "new"
    /\ log = <<>>
    /\ opcode = "none"
    /\ penalty = 0
    /\ debt = -1
    /\ idle = 0
    /\ prior = [op |-> "new", a |-> 0, st |-> 0, pc |-> 0, p |-> 0]
    /\ owed = 0
    /\ origin = [a |-> a, st |-> st, pc |-> pc, p |-> status_register, ram |-> ram]
    /\ cret = [panic |-> FALSE, v |-> 0]
    /\ cin = NoArgs

\* no second run
NoTwin == [on |-> FALSE]

GhostInit == GhostStart /\ twin = NoTwin

\* the second run's record before an operation, as Cur is before the first's
Rested(s) == [s EXCEPT !.log = <<>>, !.opcode = "none", !.penalty = 0]

Inserted(prog) ==
    \E r \in {Cartridge_load(prog, None)} :
       /\ rom_in = prog
       /\ load_result = r.err
       /\ cart = r.cart

Init ==
    /\ CpuNew
    /\ ram = EmptyMem
    /\ \E prog \in Programs : Inserted(prog)
    /\ GhostInit
    /\ budget = MaxSteps

Reset ==
    /\ budget >= IntrCost
    /\ Commit(reset(Cur), "reset", IntrCost)
    /\ debt' = -1
    /\ idle' = 0
    /\ prior' = Before("reset")
    /\ twin' = IF twin.on THEN [twin EXCEPT !.s = reset(Rested(twin.s))] ELSE twin

Irq ==
    /\ budget >= IntrCost
    /\ Commit(irq(Cur), "irq", IntrCost)
    /\ debt' = -1
    /\ idle' = 0
    /\ prior' = Before("irq")
    /\ twin' = IF twin.on THEN [twin EXCEPT !.s = irq(Rested(twin.s))] ELSE twin

Nmi ==
    /\ budget >= IntrCost
    /\ Commit(nmi(Cur), "nmi", IntrCost)
    /\ debt' = -1
    /\ idle' = 0
    /\ prior' = Before("nmi")
    /\ twin' = IF twin.on THEN [twin EXCEPT !.s = nmi(Rested(twin.s))] ELSE twin

Clock ==
    /\ budget >= 1
    /\ \E warn \in BOOLEAN : \E s \in {clock(Cur, warn)} :
          /\ Commit(s, "clock", 1)
          /\ debt' = IF s.opcode # "none" THEN s.cycles ELSE debt
          /\ idle' = IF s.opcode # "none" THEN 0 ELSE idle + 1
          /\ prior' = IF s.opcode # "none" THEN Before(s.opcode) ELSE prior
          /\ twin' = IF twin.on THEN [twin EXCEPT !.s = clock(Rested(twin.s), warn)] ELSE twin

Next == Reset \/ Irq \/ Nmi \/ Clock

Spec == Init /\ [][Next]_vars

-----------------------------------------------------------------------------
(* The CPU entered in any register state: reset, irq, nmi and clock from   *)
(* register values a program can have left                                 *)

\* the budget of one run from a chosen register state
MaxRegSteps == 21

\* register states: the one Cpu::new leaves, S about to wrap, PC at the top
\* of memory, every flag set, I set or clear, debts from 0 to 8
StartRegs ==
    { [a |-> 0,   x |-> 0,   y |-> 0,   st |-> 0,   pc |-> 0,     cycles |-> 0, p |-> 0],
      [a |-> 255, x |-> 7,   y |-> 9,   st |-> 1,   pc |-> 33023, cycles |-> 3, p |-> 4],
      [a |-> 1,   x |-> 255, y |-> 255, st |-> 2,   pc |-> 65535, cycles |-> 8, p |-> 255],
      [a |-> 128, x |-> 1,   y |-> 1,   st |-> 255, pc |-> 32768, cycles |-> 0, p |-> 48],
      [a |-> 66,  x |-> 3,   y |-> 0,   st |-> 253, pc |-> 40960, cycles |-> 1, p |-> 195] }

InitRegs ==
    /\ \E r \in StartRegs :
          /\ a = r.a
          /\ x = r.x
          /\ y = r.y
          /\ st = r.st
          /\ pc = r.pc
          /\ cycles = r.cycles
          /\ status_register = r.p
    /\ execution_mode \in {"Ring0", "Ring3"}
    /\ ram = EmptyMem
    /\ \E prog \in Programs : Inserted(prog)
    /\ GhostInit
    /\ budget = MaxRegSteps

SpecRegs == InitRegs /\ [][Next]_vars

-----------------------------------------------------------------------------
(* The cartridge as a state machine: the host loads a ROM slice, then calls *)
(* the cartridge's methods; the mapper's answers are chosen for it         *)

Min(m, n) == IF m < n THEN m ELSE n

\* iNES headers: magic, PRG count, CHR count, flags 6, flags 7
Headers ==
    { <<78, 69, 83, 26, 1, 0, 0, 0>>,       \* NROM, CHR-RAM
      <<78, 69, 83, 26, 1, 1, 1, 0>>,       \* NROM, vertical, one CHR bank
      <<78, 69, 83, 26, 1, 0, 12, 0>>,      \* NROM, trainer, four-screen
      <<78, 69, 83, 26, 2, 1, 18, 0>>,      \* MMC1 (id 1), battery
      <<78, 69, 83, 26, 2, 0, 32, 0>>,      \* UxROM (id 2)
      <<78, 69, 83, 26, 1, 1, 48, 0>>,      \* CNROM (id 3)
      <<78, 69, 83, 26, 1, 1, 64, 0>>,      \* MMC3 (id 4)
      <<78, 69, 83, 26, 2, 0, 32, 64>>,     \* GxROM (id 66)
      <<78, 69, 83, 26, 1, 1, 80, 0>>,      \* id 5, not implemented
      <<78, 69, 83, 26, 0, 0, 0, 0>>,       \* no PRG bank
      <<78, 69, 83, 0, 1, 0, 0, 0>> }       \* wrong magic

\* the length a header declares: 16 + trainer + PRG + CHR
DeclaredSize(h) ==
    16 + (IF BitAnd(h[7], 4) = 4 THEN 512 ELSE 0) + 16384 * h[5] + 8192 * h[6]

\* the ROM slice of n bytes that starts with header h: a few marked bytes at
\* the start and the end of what the header declares, 0 elsewhere
RomOf(h, n) ==
    [len |-> n,
     hdr |-> SubSeq(h \o <<0, 0, 0, 0, 0, 0, 0, 0>>, 1, Min(n, 16)),
     fill |-> 0,
     body |-> [i \in {j \in {16, 17, 528, 529, DeclaredSize(h) - 8193, DeclaredSize(h) - 8192,
                             DeclaredSize(h) - 1, DeclaredSize(h)} : j >= 16 /\ j < n}
               |-> 1 + (i % 251)]]

\* the slices handed to Cartridge::load: exact, one byte short, with bytes
\* to spare, and cut inside the header
CartRoms ==
    {RomOf(h, DeclaredSize(h) + d) : h \in Headers, d \in {-1, 0, 3}}
    \cup {RomOf(h, 10) : h \in {<<78, 69, 83, 26, 1, 0, 0, 0>>}}

SaveBlobs == {None, Some(<<7, 7>>)}

\* addresses, data and the offsets a mapper answers
CartAddrs == {0, 32768, 65535}
CartData == {0, 255}
MapperOffsets == {0, 8191, 8192, 16384}

\* Mapper::cpu_map_read as the cartridge sees it: NROM's window, or for the
\* banked mappers (not part of the sources) any answer of the trait's type
cpu_map_read(c, addr) ==
    IF c.mapper.id = 0
    THEN {Mapper000_cpu_map_read(c.mapper, addr)}
    ELSE {PrgRom(o) : o \in MapperOffsets} \cup {PrgRam(d) : d \in CartData}

\* Mapper::ppu_map_read: any usize
ppu_map_read(c, addr) == MapperOffsets

\* Mapper::ppu_map_write: any Option<usize>
ppu_map_write(c, addr) == {None} \cup {Some(o) : o \in MapperOffsets}

NoRom == [len |-> 0, hdr |-> <<>>, fill |-> 0, body |-> EmptyMem]

InitCart ==
    /\ CpuNew
    /\ ram = EmptyMem
    /\ rom_in = NoRom
    /\ load_result = "none"
    /\ cart = NoCart
    /\ GhostInit
    /\ budget = MaxCartOps

\* what a cartridge method leaves: r = [panic, v or state or save, cart]
CartCommit(r, name, args) ==
    /\ cart' = r.cart
    /\ cret' = [f \in DOMAIN r \ {"cart"} |-> r[f]]
    /\ cin' = args
    /\ call' = name
    /\ budget' = budget - 1
    /\ UNCHANGED <<cpu_vars, ram, load_result, rom_in,
                   log, opcode, penalty, debt, idle, prior, owed, origin, twin>>

\* a method can be called on a loaded cartridge while nothing has panicked
Callable == cart.loaded /\ ~cret.panic /\ budget >= 1

Load ==
    /\ call = "new"
    /\ \E rom \in CartRoms, save \in SaveBlobs : \E r \in {Cartridge_load(rom, save)} :
          /\ rom_in' = rom
          /\ load_result' = r.err
          /\ cart' = r.cart
    /\ call' = "load"
    /\ UNCHANGED <<cpu_vars, ram, cret, cin, log, opcode, penalty, debt, idle, prior, owed,
                   origin, twin,
                   budget>>

ReadPrg ==
    /\ Callable
    /\ \E addr \in CartAddrs : \E target \in cpu_map_read(cart, addr) :
          CartCommit(read_prg_mem(cart, target), "read_prg_mem", Args(addr, 0, target))

WritePrg ==
    /\ Callable
    /\ \E addr \in CartAddrs, data \in CartData :
          CartCommit(write_prg_mem(cart, addr, data), "write_prg_mem",
                     Args(addr, data, None))

ReadChr ==
    /\ Callable
    /\ \E addr \in CartAddrs : \E off \in ppu_map_read(cart, addr) :
          CartCommit(read_chr_mem(cart, off), "read_chr_mem", Args(addr, 0, Some(off)))

WriteChr ==
    /\ Callable
    /\ \E addr \in CartAddrs, data \in CartData : \E off \in ppu_map_write(cart, addr) :
          CartCommit(write_chr_mem(cart, off, data), "write_chr_mem",
                     Args(addr, data, off))

TakeIrq ==
    /\ Callable
    /\ CartCommit(take_irq_set_state(cart), "take_irq_set_state", NoArgs)

GetSave ==
    /\ Callable
    /\ CartCommit(get_save_data(cart), "get_save_data", NoArgs)

\* the scanline counter of MMC3 raises the mapper's IRQ line (spec 4.2)
RaiseIrq ==
    /\ Callable
    /\ cart.mapper.id = 4
    /\ ~cart.mapper.irq
    /\ cart' = [cart EXCEPT !.mapper.irq = TRUE]
    /\ call' = "mapper_irq"
    /\ budget' = budget - 1
    /\ UNCHANGED <<cpu_vars, ram, load_result, rom_in, cret, cin,
                   log, opcode, penalty, debt, idle, prior, owed, origin, twin>>

NextCart ==
    Load \/ ReadPrg \/ WritePrg \/ ReadChr \/ WriteChr \/ TakeIrq \/ GetSave \/ RaiseIrq

SpecCart == InitCart /\ [][NextCart]_vars

-----------------------------------------------------------------------------
(* Properties of the CPU's cycle accounting *)

\* the opcodes whose arm calls branch()
BranchOpcodes == {"Bpl", "Bmi", "Bvc", "Bvs", "Bcc", "Bcs", "Bne", "Beq"}

\* the opcodes whose arm adds a cycle when the indexed address leaves the page
PageCrossOpcodes ==
    {"OraIndY", "OraAbsY", "OraAbsX", "AndIndY", "AndAbsY", "AndAbsX", "EorIndY",
     "EorAbsY", "EorAbsX", "AdcIndY", "AdcAbsY", "AdcAbsX", "LdaIndY", "LdaAbsY",
     "LdaAbsX", "LdxAbsY", "LdyAbsX", "CmpIndY", "CmpAbsY", "CmpAbsX", "SbcIndY",
     "SbcAbsY", "SbcAbsX"}

\* C1: a clock() call entered with cycle debt 0 executes an opcode O and
\* leaves the debt at base_cycles(O) - 1 plus the penalties of O's arm (a
\* taken branch 1 or 2, a crossed page 1, any other opcode 0), with
\* base_cycles(O) >= 2; a call entered with a positive debt executes nothing;
\* and as long as no reset/irq/nmi intervenes the next opcode is fetched by
\* the call that follows exactly `debt` idle calls, so an instruction of
\* total cost n occupies n calls.
C1_InstructionCost ==
    [][call' = "clock" =>
          /\ (opcode' # "none") <=> (cycles = 0)
          /\ opcode' # "none" =>
                /\ Opcode_cycles(opcode') >= 2
                /\ cycles' = Opcode_cycles(opcode') - 1 + penalty'
                /\ cycles' >= Opcode_cycles(opcode') - 1
                /\ penalty' \in (IF opcode' \in BranchOpcodes THEN 0..2
                                 ELSE IF opcode' \in PageCrossOpcodes THEN 0..1
                                 ELSE {0})
          /\ debt >= 0 => ((opcode' # "none") <=> (idle = debt))
      ]_vars

\* a taken branch across a page was just executed: base 2, penalty 2, debt 3
C1_BranchAcrossPage ==
    /\ call = "clock"
    /\ opcode = "Beq"
    /\ penalty = 2
    /\ cycles = 3
    /\ debt = 3
    /\ owed = 0

\* C2: a clock() call entered with a positive cycle debt decrements the debt
\* by exactly one, leaves A, X, Y, S, P, PC, the execution mode, the RAM and
\* the cartridge unchanged, and issues no bus read or write.
C2_IdleClock ==
    [][call' = "clock" /\ cycles > 0 =>
          /\ cycles' = cycles - 1
          /\ UNCHANGED <<a, x, y, st, status_register, pc, execution_mode, ram, cart>>
          /\ log' = <<>>
          /\ opcode' = "none"
      ]_vars

\* an idle call was just made: entered with debt 2, left with debt 1, RAM in use
C2_Idled ==
    /\ call = "clock"
    /\ owed = 2
    /\ cycles = 1
    /\ log = <<>>
    /\ ram # EmptyMem

-----------------------------------------------------------------------------
(* Properties of reset, irq, nmi *)

\* the byte of the inserted ROM the bus serves at a vector address (NROM, one
\* PRG bank mirrored over $8000-$FFFF)
VectorByte(addr) == RomAt(rom_in, FileAt(addr))

\* the status byte an interrupt pushes: B cleared, U set
PushedStatus(p) == BitOr(BitAnd(p, 255 - StatusRegister_B), StatusRegister_U)

\* the step of a taken interrupt through the vector at `handler`: PC high at
\* 0x0100+S, PC low at 0x0100+(S-1), the status with B=0 and U=1 at
\* 0x0100+(S-2), S down by 3 (mod 256), I set, PC loaded from the vector
InterruptTaken(handler) ==
    /\ log' = << <<"W", STACK_BASE + st, pc \div 256>>,
                 <<"W", STACK_BASE + W8(st + 255), pc % 256>>,
                 <<"W", STACK_BASE + W8(st + 254), PushedStatus(status_register)>>,
                 <<"R", handler, VectorByte(handler)>>,
                 <<"R", handler + 1, VectorByte(handler + 1)>> >>
    /\ read_ram(ram', STACK_BASE + st) = pc \div 256
    /\ read_ram(ram', STACK_BASE + W8(st + 255)) = pc % 256
    /\ read_ram(ram', STACK_BASE + W8(st + 254)) = PushedStatus(status_register)
    /\ st' = W8(st + 253)
    /\ status_register' = BitOr(PushedStatus(status_register), StatusRegister_I)
    /\ pc' = Word(VectorByte(handler), VectorByte(handler + 1))
    /\ UNCHANGED <<a, x, y>>

\* C3: from any CPU state reset() leaves A = X = Y = 0, S = 0xFD, the status
\* register 0x20, cycle debt 8 and PC the little-endian word read through the
\* bus at 0xFFFC/0xFFFD (0x8000 when those bytes are 0x00, 0x80).
C3_Reset ==
    call = "reset" =>
        /\ a = 0
        /\ x = 0
        /\ y = 0
        /\ st = 253
        /\ status_register = 32
        /\ cycles = 8
        /\ log = << <<"R", 65532, VectorByte(65532)>>, <<"R", 65533, VectorByte(65533)>> >>
        /\ pc = Word(VectorByte(65532), VectorByte(65533))
        /\ (VectorByte(65532) = 0 /\ VectorByte(65533) = 128 => pc = 32768)

\* reset() was called in a state with cycle debt 3 and left PC = 0x8000
C3_ResetDone ==
    /\ call = "reset"
    /\ owed = 3
    /\ pc = 32768
    /\ st = 253

\* C4: irq() called with I clear writes PC high at 0x0100+S, PC low at
\* 0x0100+(S-1) and the status with B=0 and U=1 at 0x0100+(S-2) (S mod 256),
\* leaves S decreased by 3, sets I and loads PC from 0xFFFE/0xFFFF.
C4_IrqTaken ==
    [][call' = "irq" /\ ~contains(status_register, StatusRegister_I) =>
          InterruptTaken(IRQ_HANDLER)]_vars

\* an irq was taken with S = 0: the three writes went to 0x0100, 0x01FF and
\* 0x01FE and S wrapped to 0xFD
C4_IrqWrapped ==
    /\ call = "irq"
    /\ Len(log) = 5
    /\ log[1][2] = 256
    /\ log[2][2] = 511
    /\ log[3][2] = 510
    /\ st = 253

\* C5: irq() called with I set is a no-op: registers, status, S, PC, cycle
\* debt and memory are unchanged (and the bus is not touched).
C5_IrqMasked ==
    [][call' = "irq" /\ contains(status_register, StatusRegister_I) =>
          /\ UNCHANGED <<a, x, y, st, pc, cycles, status_register, execution_mode,
                         ram, cart>>
          /\ log' = <<>>
      ]_vars

\* irq() was called with I set and a cycle debt of 3, and changed nothing
C5_IrqIgnored ==
    /\ call = "irq"
    /\ contains(status_register, StatusRegister_I)
    /\ log = <<>>
    /\ owed = 3
    /\ cycles = 3

\* C6: nmi() is unconditional: whatever the I flag is, it pushes PC high, PC
\* low and the status with B=0 and U=1 as a taken irq does, sets I, and loads
\* PC from 0xFFFA/0xFFFB.
C6_Nmi ==
    [][call' = "nmi" => InterruptTaken(NMI_HANDLER)]_vars

\* an nmi ran although I was set: the status it pushed holds I
C6_NmiWithISet ==
    /\ call = "nmi"
    /\ Len(log) = 5
    /\ contains(log[3][3], StatusRegister_I)
    /\ log[4][2] = NMI_HANDLER

\* C7 as stated: a taken irq() and any nmi() leave the cycle debt at c + 7,
\* c being the debt before the call.
C7_AddsSeven ==
    [][(call' = "nmi" \/ (call' = "irq" /\ ~contains(status_register, StatusRegister_I)))
           => cycles' = cycles + 7]_vars

\* C7: a taken irq() and any nmi() set the cycle debt to 7, whatever the debt
\* before the call was (it is c + 7 only for c = 0).
C7_DebtIsSeven ==
    [][(call' = "nmi" \/ (call' = "irq" /\ ~contains(status_register, StatusRegister_I)))
           => cycles' = 7]_vars

\* an nmi entered with a cycle debt of 8 left a debt of 7
C7_DebtReplaced ==
    /\ call = "nmi"
    /\ owed = 8
    /\ cycles = 7

-----------------------------------------------------------------------------
(* Properties of Cartridge::load and of the cartridge's memory access *)

\* the mapper id in the header bytes of a slice
HeaderMapperId(h) == BitOr(BitAnd(h[8], 240), h[7] \div 16)

\* the slice is shorter than 16 bytes, or than its header declares
ShorterThanDeclared(rom) == rom.len < 16 \/ rom.len < DeclaredSize(rom.hdr)

C9_PrgNonEmpty ==
    load_result = "Ok" => cart.loaded /\ cart.prg_memory.len > 0

\* C10: after a successful load no call of read_prg_mem, write_prg_mem,
\* read_chr_mem or write_chr_mem panics, whatever the address, the data and
\* the offset the mapper answers.
C10_NoPanic ==
    call \in {"read_prg_mem", "write_prg_mem", "read_chr_mem", "write_chr_mem"}
        => ~cret.panic

-----------------------------------------------------------------------------
(* Properties of the loaded cartridge's storage *)

\* the methods of a loaded Cartridge
CartMethods ==
    {"read_prg_mem", "write_prg_mem", "read_chr_mem", "write_chr_mem",
     "take_irq_set_state", "get_save_data"}

\* the bytes of a vector at the indexes the ROM slices mark, and at its ends
SampleIndexes(v) ==
    {i \in {0, 1, 511, 512, 513, 8191, 8192, 16383, 16384, 32767, v.len - 1} :
        i >= 0 /\ i < v.len}

\* C11: no call of read_prg_mem, write_prg_mem, read_chr_mem, write_chr_mem,
\* take_irq_set_state or get_save_data on a loaded cartridge changes the
\* length or any byte of prg_memory, whatever calls came before it.
C11_PrgImmutable ==
    [][cart.loaded /\ call' \in CartMethods =>
          /\ cart'.prg_memory.len = cart.prg_memory.len
          /\ \A i \in SampleIndexes(cart.prg_memory) :
                VecAt(cart'.prg_memory, i) = VecAt(cart.prg_memory, i)
          /\ cart'.prg_memory = cart.prg_memory
      ]_vars

\* a third method call in a row, a write that changed CHR-RAM, left the PRG
\* bank of the ROM slice as it was loaded
C11_PrgKeptAfterWrites ==
    /\ call = "write_chr_mem"
    /\ budget = 0
    /\ cart.chr_memory.w # EmptyMem
    /\ cart.prg_memory = Slice(rom_in, 16, 16 + PRG_BANK_SIZE)
    /\ VecAt(cart.prg_memory, 0) = RomAt(rom_in, 16)

\* the first four bytes of the slice are the iNES magic "NES\x1A"
ValidHeader(rom) == rom.len >= 16 /\ SubSeq(rom.hdr, 1, 4) = <<78, 69, 83, 26>>

\* C12: for a slice with a valid header Cartridge::load returns
\* MapperNotImplemented exactly when the mapper id is none of 0, 1, 2, 3, 4,
\* 66, whatever the length of the slice is; and a load that returns an error
\* produces no Cartridge.
C12_MapperSupport ==
    /\ load_result # "none" /\ ValidHeader(rom_in) =>
          (load_result = "MapperNotImplemented"
              <=> HeaderMapperId(rom_in.hdr) \notin {0, 1, 2, 3, 4, 66})
    /\ load_result \notin {"none", "Ok"} => cart = NoCart
    /\ load_result = "Ok" => cart.loaded

\* a complete slice whose header names mapper 5 was refused, and a complete
\* slice for mapper 66 is what the cartridge would load
C12_MapperFiveRefused ==
    /\ load_result = "MapperNotImplemented"
    /\ ValidHeader(rom_in)
    /\ HeaderMapperId(rom_in.hdr) = 5
    /\ rom_in.len = DeclaredSize(rom_in.hdr)
    /\ cart = NoCart
    /\ \E rom \in CartRoms :
          /\ HeaderMapperId(rom.hdr) = 66
          /\ Cartridge_load(rom, None).err = "Ok"

\* where PRG starts in a slice with header h, and the lengths h declares
PrgStart(h) == IF BitAnd(h[7], 4) = 4 THEN 528 ELSE 16
PrgLen(h) == 16384 * h[5]
ChrLen(h) == 8192 * h[6]

\* C13: right after a successful load prg_memory is the 16384 * PRG-count
\* bytes of the slice from offset 16 (528 with the trainer bit), chr_memory is
\* the 8192 * CHR-count bytes that follow them, or 8192 zero bytes of CHR-RAM
\* when the CHR count is 0, and no byte of the slice past
\* 16 + trainer + PRG + CHR is part of either.
C13_LoadedBytes ==
    call = "load" /\ load_result = "Ok" =>
        /\ cart.prg_memory.len = PrgLen(rom_in.hdr)
        /\ \A i \in SampleIndexes(cart.prg_memory) :
              VecAt(cart.prg_memory, i) = RomAt(rom_in, PrgStart(rom_in.hdr) + i)
        /\ cart.chr_ram <=> (rom_in.hdr[6] = 0)
        /\ IF rom_in.hdr[6] = 0
           THEN /\ cart.chr_memory.len = 8192
                /\ \A i \in SampleIndexes(cart.chr_memory) : VecAt(cart.chr_memory, i) = 0
           ELSE /\ cart.chr_memory.len = ChrLen(rom_in.hdr)
                /\ \A i \in SampleIndexes(cart.chr_memory) :
                      VecAt(cart.chr_memory, i)
                          = RomAt(rom_in, PrgStart(rom_in.hdr) + PrgLen(rom_in.hdr) + i)
        /\ PrgStart(rom_in.hdr) + PrgLen(rom_in.hdr)
               + (IF cart.chr_ram THEN 0 ELSE cart.chr_memory.len) <= rom_in.len

\* a slice with a trainer and three bytes to spare was loaded: PRG starts at
\* the marked byte at offset 528 and the spare bytes are in no vector
C13_TrainerSkipped ==
    /\ call = "load"
    /\ load_result = "Ok"
    /\ BitAnd(rom_in.hdr[7], 4) = 4
    /\ rom_in.len = DeclaredSize(rom_in.hdr) + 3
    /\ VecAt(cart.prg_memory, 0) = RomAt(rom_in, 528)
    /\ RomAt(rom_in, 528) # 0
    /\ RomAt(rom_in, DeclaredSize(rom_in.hdr)) # 0
    /\ cart.prg_memory.len = 16384

\* C14: a write_chr_mem call leaves the length of chr_memory as it was and
\* every byte of it as it was, but the byte at the offset the mapper's
\* ppu_map_write answered when the cartridge uses CHR-RAM, which becomes the
\* data written; with CHR-ROM, or when the mapper answers no offset, the call
\* returns with chr_memory unchanged.  Nothing else of the cartridge changes.
C14_ChrWrite ==
    [][call' = "write_chr_mem" =>
          /\ cart'.chr_memory.len = cart.chr_memory.len
          /\ \A i \in SampleIndexes(cart.chr_memory) :
                VecAt(cart'.chr_memory, i) =
                    IF cart.chr_ram /\ cin'.ans.some /\ i = cin'.ans.v
                    THEN cin'.data
                    ELSE VecAt(cart.chr_memory, i)
          /\ ~cart.chr_ram \/ ~cin'.ans.some =>
                cart'.chr_memory = cart.chr_memory /\ ~cret'.panic
          /\ cart' = [cart EXCEPT !.chr_memory = cart'.chr_memory]
      ]_vars

\* CHR-RAM was written at the mapper's offset 8191 and at no other offset,
\* and a later write that the mapper answered with no offset was dropped
C14_WriteThenDrop ==
    /\ call = "write_chr_mem"
    /\ cart.chr_ram
    /\ ~cin.ans.some
    /\ cin.data = 0
    /\ VecAt(cart.chr_memory, 8191) = 255
    /\ VecAt(cart.chr_memory, 0) = 0
    /\ DOMAIN cart.chr_memory.w = {8191}

\* C15: take_irq_set_state returns the state the mapper's IRQ latch had
\* before the call and leaves the latch cleared; a call that follows another
\* one with nothing in between returns false; and with a mapper that keeps
\* the default irq_state/irq_clear (every mapper but MMC3) it returns false.
C15_TakeIrq ==
    [][call' = "take_irq_set_state" =>
          /\ cret'.state = cart.mapper.irq
          /\ cart'.mapper.irq = FALSE
          /\ cart' = [cart EXCEPT !.mapper.irq = FALSE]
          /\ call = "take_irq_set_state" => cret'.state = FALSE
          /\ cart.mapper.id # 4 => cret'.state = FALSE
      ]_vars

\* the latch of an MMC3 cartridge was raised, and the call returned true and
\* left it cleared
C15_LatchTaken ==
    /\ call = "take_irq_set_state"
    /\ cart.mapper.id = 4
    /\ cret.state = TRUE
    /\ cart.mapper.irq = FALSE

-----------------------------------------------------------------------------
(* The bus on its own: the CPU's reads and writes at the ends of every     *)
(* range of CpuBus::read and CpuBus::write                                  *)

\* reads and writes in one run of the bus
MaxBusOps == 2

\* the first and the last address of each range, and RAM mirrors
BusAddrs ==
    {0, 2047, 2048, 8191, 8192, 16383, 16384, 16405, 16406, 16407, 16408, 16415,
     16416, 32768, 65535}
BusData == {165}

InitBus ==
    /\ CpuNew
    /\ ram = EmptyMem
    /\ Inserted(StackProgram)
    /\ GhostInit
    /\ budget = MaxBusOps

BusRead ==
    /\ budget >= 1
    /\ \E addr \in BusAddrs : Commit(CpuBus_read(Cur, addr).s, "bus_read", 1)
    /\ UNCHANGED <<debt, idle, prior, twin>>

BusWrite ==
    /\ budget >= 1
    /\ \E addr \in BusAddrs, data \in BusData :
          Commit(CpuBus_write(Cur, addr, data), "bus_write", 1)
    /\ UNCHANGED <<debt, idle, prior, twin>>

NextBus == BusRead \/ BusWrite

SpecBus == InitBus /\ [][NextBus]_vars

\* the target of an address as the memory map states it
MapTarget(addr) ==
    IF addr <= 8191 THEN "ram"
    ELSE IF addr <= 16383 THEN "ppu"
    ELSE IF addr = 16406 THEN "controller1"
    ELSE IF addr = 16407 THEN "controller2"
    ELSE IF addr >= 16416 THEN "prg"
    ELSE "apu"

\* C16: for the address of every bus access exactly one arm of CpuBus::read
\* and exactly one arm of CpuBus::write holds it, and both lead to the same
\* target: RAM for 0x0000-0x1FFF, the PPU registers for 0x2000-0x3FFF,
\* controller 1 for 0x4016, controller 2 for 0x4017, the cartridge's PRG for
\* 0x4020-0xFFFF; a read of 0x4000-0x4015 or 0x4018-0x401F returns 0 and a
\* write there changes neither the RAM nor the cartridge nor the CPU.
C16_BusDecode ==
    [][call' \in {"bus_read", "bus_write"} =>
          /\ Len(log') = 1
          /\ Cardinality(Matching(ReadArms, log'[1][2])) = 1
          /\ Cardinality(Matching(WriteArms, log'[1][2])) = 1
          /\ BusTarget(log'[1][2]) = MapTarget(log'[1][2])
          /\ BusWriteTarget(log'[1][2]) = MapTarget(log'[1][2])
          /\ MapTarget(log'[1][2]) = "apu" =>
                /\ call' = "bus_read" => log'[1][3] = 0
                /\ UNCHANGED <<cpu_vars, ram, cart>>
          /\ call' = "bus_read" => UNCHANGED <<cpu_vars, ram, cart>>
      ]_vars

\* 0x401F was read as 0 while the RAM held a byte written before
C16_ApuReadsZero ==
    /\ call = "bus_read"
    /\ log = << <<"R", 16415, 0>> >>
    /\ ram # EmptyMem

-----------------------------------------------------------------------------
(* Properties of single instructions *)

\* the bus writes among the accesses of the last call
Writes(accesses) == {i \in DOMAIN accesses : accesses[i][1] = "W"}

\* C17: a clock() call that fetches a byte the opcode table does not know
\* runs it as NOP: PC goes up by exactly 1, the instruction costs 2 cycles
\* (this call and one idle call), A, X, Y, S, the status register, the RAM and
\* the cartridge are unchanged, and nothing is written on the bus.
C17_UnknownOpcode ==
    [][call' = "clock" /\ cycles = 0 /\ Opcode_try_from(log'[1][3]) = "Err" =>
          /\ log'[1] = <<"R", pc, log'[1][3]>>
          /\ opcode' = "Nop"
          /\ pc' = W16(pc + 1)
          /\ Opcode_cycles(opcode') = 2
          /\ penalty' = 0
          /\ cycles' = 1
          /\ debt' = 1
          /\ UNCHANGED <<a, x, y, st, status_register, execution_mode, ram, cart>>
          /\ Writes(log') = {}
      ]_vars

\* the byte 0xFF at 0x8000 was fetched and run as a NOP
C17_RanAsNop ==
    /\ call = "clock"
    /\ opcode = "Nop"
    /\ log[1] = <<"R", 32768, 255>>
    /\ pc = 32769
    /\ cycles = 1

\* the embedded array of an execution mode
FlagOf(mode) == IF mode = "Ring0" THEN FLAG3 ELSE FLAG4

\* C18: executing opcode 0x02 leaves in A the byte at index (A before the
\* instruction) mod len of FLAG3 in Ring0 and of FLAG4 in Ring3, and writes
\* nothing; and the arm does so from every value of A in 0..255.
C18_FlagRead ==
    [][opcode' = "FlagAcc" =>
          /\ log'[1] = <<"R", pc, 2>>
          /\ a' = FlagOf(execution_mode)[(a % Len(FlagOf(execution_mode))) + 1]
          /\ Writes(log') = {}
          /\ UNCHANGED <<x, y, st, status_register, execution_mode, ram, cart>>
          /\ \A v \in 0..255 :
                /\ FlagAcc([Cur EXCEPT !.a = v]).a
                       = FlagOf(execution_mode)[(v % Len(FlagOf(execution_mode))) + 1]
                /\ FlagAcc([Cur EXCEPT !.a = v]).ram = ram
                /\ FlagAcc([Cur EXCEPT !.a = v]).log = <<>>
      ]_vars

\* in Ring3, 0x02 was executed with A = 7, past the end of FLAG4: A is FLAG4's
\* byte at index 7 mod 6
C18_IndexWrapped ==
    /\ call = "clock"
    /\ opcode = "FlagAcc"
    /\ execution_mode = "Ring3"
    /\ pc = 40963
    /\ a = FLAG4[2]
    /\ a # FLAG3[3]

-----------------------------------------------------------------------------
(* One instruction from chosen registers: the two bytes of an immediate    *)
(* instruction are in RAM at 0x0010 and the CPU is clocked at PC = 0x0010   *)

\* clock() calls in one run
MaxAluSteps == 2

\* accumulator values, operands, status registers (C, Z, V, N set or clear)
\* and the opcodes run: ADC #imm (0x69), SBC #imm (0xE9)
AluBytes == {0, 1, 80, 127, 128, 255}
AluOperands == {0, 1, 15, 80, 127, 128, 240, 255}
AluStatus == {0, 1, 64, 65, 194, 195}
AluOpcodes == {105, 233}

InitAlu ==
    /\ a \in AluBytes
    /\ x = 0
    /\ y = 0
    /\ st = 253
    /\ pc = 16
    /\ cycles = 0
    /\ status_register \in AluStatus
    /\ execution_mode = "Ring0"
    /\ \E b \in AluOpcodes, m \in AluOperands :
          ram = SparsePut(SparsePut(EmptyMem, 0, 16, b), 0, 17, m)
    /\ Inserted(StackProgram)
    /\ GhostInit
    /\ budget = MaxAluSteps

SpecAlu == InitAlu /\ [][Clock]_vars

\* 1 when the carry flag is set in p, 0 otherwise
CarryIn(p) == IF contains(p, StatusRegister_C) THEN 1 ELSE 0

\* the signed-overflow formula ((A ^ R) & ~(A ^ M)) & 0x80 # 0
SignedOverflow(acc, m, r) ==
    BitAnd(BitAnd(BitXor(acc, r), 255 - BitXor(acc, m)), 128) # 0

\* C19: ADC #M from accumulator A with carry-in C leaves A = (A + M + C) mod
\* 256, C set iff A + M + C > 0xFF, V set iff ((A ^ R) & ~(A ^ M)) & 0x80 is
\* non-zero for the 8-bit result R, Z set iff R = 0 and N = bit 7 of R; from
\* A = 0x50, C = 0, ADC #$50 leaves A = 0xA0, N = 1, V = 1, Z = 0, C = 0.
C19_Adc ==
    [][opcode' = "AdcImm" =>
          /\ a' = (a + log'[2][3] + CarryIn(status_register)) % 256
          /\ contains(status_register', StatusRegister_C)
                <=> (a + log'[2][3] + CarryIn(status_register) > 255)
          /\ contains(status_register', StatusRegister_V)
                <=> SignedOverflow(a, log'[2][3], a')
          /\ contains(status_register', StatusRegister_Z) <=> (a' = 0)
          /\ contains(status_register', StatusRegister_N) <=> (a' >= 128)
          /\ a = 80 /\ log'[2][3] = 80 /\ CarryIn(status_register) = 0 =>
                /\ a' = 160
                /\ contains(status_register', StatusRegister_N)
                /\ contains(status_register', StatusRegister_V)
                /\ ~contains(status_register', StatusRegister_Z)
                /\ ~contains(status_register', StatusRegister_C)
      ]_vars

-----------------------------------------------------------------------------
(* Short instruction sequences from chosen registers: the program is in    *)
(* RAM and the CPU is clocked from its first byte                          *)

\* clock() calls in one run: JSR (6 cycles), then the RTS it jumped to
MaxSeqSteps == 8

\* accumulators and stack pointers (S about to wrap in either direction)
SeqBytes == {0, 1, 127, 128, 255}
SeqStack == {0, 1, 2, 128, 253, 255}
\* status registers other than the 256 the PHP/PLP case runs through
SeqStatus == {0, 36, 48, 207, 255}
\* where a program starts: 0x0200, and 0x0AFF (a RAM mirror, the program
\* continuing into the next page)
SeqOrigins == {512, 2815}
\* pointers of JMP (p): low byte 0xFF or not, in page zero, in RAM, in a RAM
\* mirror, at the end of RAM, in ROM, at the top of memory
JmpPointers == {16, 255, 768, 1022, 2047, 4351, 41215, 65535}

\* cleared RAM with `bytes` written from the (mirrored) address `at` on
InRam(at, bytes) ==
    [i \in {BitAnd(at + k - 1, 2047) : k \in {n \in 1..Len(bytes) : bytes[n] # 0}} |->
        bytes[CHOOSE k \in 1..Len(bytes) : BitAnd(at + k - 1, 2047) = i]]

\* RAM around the pointer q of a JMP (q): 0x34 at q, 0x12 at the start of
\* q's page (or 0x56 when that is q itself), 0xAB at q + 1
PointerData(q) ==
    IF q >= 8192 THEN EmptyMem
    ELSE InRam(q, <<52>>)
         @@ InRam(W16(q + 1), <<171>>)
         @@ InRam(BitAnd(q, 65280), <<18>>)

Case(acc, sp, at, p, mem) == [a |-> acc, st |-> sp, pc |-> at, p |-> p, ram |-> mem]

\* PHA; PLA
PushPullA ==
    { Case(acc, sp, 512, p, InRam(512, <<72, 104>>)) :
        acc \in SeqBytes, sp \in SeqStack, p \in {0, 255} }
\* PHP; PLP
PushPullP ==
    { Case(0, sp, 512, p, InRam(512, <<8, 40>>)) : sp \in {0, 253, 255}, p \in 0..255 }
\* JSR to the RTS 16 bytes further
CallReturn ==
    { Case(1, sp, at, 36, InRam(at, <<32, (at + 16) % 256, (at + 16) \div 256>>)
                          @@ InRam(at + 16, <<96>>)) :
        sp \in SeqStack, at \in SeqOrigins }
\* BRK
Break ==
    { Case(1, sp, at, p, InRam(at, <<0>>)) :
        sp \in SeqStack, at \in SeqOrigins, p \in SeqStatus }
\* JMP (q)
JumpIndirect ==
    { Case(1, 253, 512, 36, InRam(512, <<108, q % 256, q \div 256>>) @@ PointerData(q)) :
        q \in JmpPointers }

SeqCases == PushPullA \cup PushPullP \cup CallReturn \cup Break \cup JumpIndirect

InitSeq ==
    /\ \E c \in SeqCases :
          /\ a = c.a
          /\ st = c.st
          /\ pc = c.pc
          /\ status_register = c.p
          /\ ram = c.ram
    /\ x = 0
    /\ y = 0
    /\ cycles = 0
    /\ execution_mode = "Ring0"
    /\ Inserted(StackProgram)
    /\ GhostInit
    /\ budget = MaxSeqSteps

SpecSeq == InitSeq /\ [][Clock]_vars

\* the byte the CPU reads at addr in the current state
Mem(addr) == CpuBus_read(Cur, addr).v

-----------------------------------------------------------------------------
(* C21: JMP (p) takes the low byte of the new PC from p and the high byte   *)
(* from p + 1, or from the start of p's page when the low byte of p is 0xFF *)

\* C21: for every pointer p, JMP (p) sets PC to the byte at p as low byte
\* and, as high byte, the byte at p + 1 when the low byte of p is not 0xFF
\* and the byte at (p & 0xFF00) when it is; JMP ($10FF) with 0x34 at 0x10FF,
\* 0x12 at 0x1000 and 0xAB at 0x1100 gives PC = 0x1234.
C21_JmpIndirect ==
    [][opcode' = "JmpInd" =>
          \E q \in {Word(log'[2][3], log'[3][3])} :
             pc' = Word(Mem(q),
                        Mem(IF q % 256 = 255 THEN BitAnd(q, 65280) ELSE W16(q + 1)))]_vars

-----------------------------------------------------------------------------
(* C22: BEQ +4 at 0x80FE with Z set                                        *)

\* BEQ with offset +4 is about to be executed: its opcode is at 0x80FE and Z
\* is set
BeqAtPageEnd ==
    /\ opcode' = "Beq"
    /\ pc = 33022
    /\ log'[2] = <<"R", 33023, 4>>
    /\ contains(status_register, StatusRegister_Z)

\* C22 as stated: BEQ +4 whose opcode is at 0x80FE, with Z = 1, consumes 4
\* clock cycles in total (this call and 3 idle ones) and leaves PC = 0x8104.
C22_BranchScenario ==
    [][BeqAtPageEnd => pc' = 33028 /\ cycles' + 1 = 4]_vars

\* C22: BEQ +4 whose opcode is at 0x80FE, with Z = 1, consumes 3 clock cycles
\* in total (2 base + 1 branch taken) and leaves PC = 0x8104: the target is in
\* the page of the instruction after the BEQ (0x8100), which is the PC the
\* code compares it with.
C22_BranchAsCoded ==
    [][BeqAtPageEnd =>
          /\ pc' = 33028
          /\ penalty' = 1
          /\ cycles' + 1 = 3
          /\ Opcode_cycles("Beq") = 2]_vars

\* the BEQ at 0x80FE was taken to 0x8104 and left a debt of 2 cycles
C22_BranchTaken ==
    /\ opcode = "Beq"
    /\ prior.op = "Beq"
    /\ prior.pc = 33022
    /\ contains(prior.p, StatusRegister_Z)
    /\ pc = 33028
    /\ cycles = 2

-----------------------------------------------------------------------------
(* C23: PHA then PLA, PHP then PLP                                         *)

\* C23: for every A and S, PHA immediately followed by PLA leaves A and S as
\* they were before the PHA, Z set iff A = 0 and N equal to bit 7 of A; for
\* every status value, PHP immediately followed by PLP leaves S as it was
\* before the PHP and C, Z, I, D, V, N as they were, with B and U cleared.
C23_StackRoundTrip ==
    [][/\ (opcode' = "Pla" /\ prior.op = "Pha") =>
             /\ a' = prior.a
             /\ st' = prior.st
             /\ contains(status_register', StatusRegister_Z) <=> (prior.a = 0)
             /\ contains(status_register', StatusRegister_N) <=> (prior.a >= 128)
       /\ (opcode' = "Plp" /\ prior.op = "Php") =>
             /\ st' = prior.st
             /\ status_register'
                   = BitAnd(prior.p, 255 - StatusRegister_B - StatusRegister_U)]_vars

\* PLA has just pulled 0xFF, pushed by the PHA before it at 0x0100 with S = 0:
\* S wrapped to 0xFF and is back at 0
C23_PulledAcrossWrap ==
    /\ opcode = "Pla"
    /\ prior.op = "Pla"
    /\ prior.st = 255
    /\ log[2] = <<"R", 256, 255>>
    /\ a = 255
    /\ st = 0
    /\ contains(status_register, StatusRegister_N)

-----------------------------------------------------------------------------
(* n pushes, then n pops: PHA n - 1 times, PHP, then PLA n times, run from  *)
(* ROM with the stack pointer anywhere in the stack page                   *)

\* the pushes of the longest program: one more than the stack page holds
MaxPushes == 257

\* how many pushes a program makes
PushCounts == {1, 2, MaxPushes - 1, MaxPushes}
\* the stack pointers the pushes start from
PushStack == {0, 1, 128, 255}
\* a PRG bank of PLAs (0x68) with n - 1 PHAs (0x48) and a PHP (0x08) at its
\* start, 0x8000
PushProgram(n) ==
    [len |-> 16 + PRG_BANK_SIZE,
     hdr |-> <<78, 69, 83, 26, 1, 0, 0, 0, 0, 0, 0, 0, 0, 0, 0, 0>>,
     fill |-> 104,
     body |-> Place(FileAt(32768), [k \in 1..n |-> IF k = n THEN 8 ELSE 72])]

\* A = 0x80, P = 0x01, and 0x11 in the stack page where the first push goes
InitStack ==
    /\ a = 128
    /\ x = 0
    /\ y = 0
    /\ st \in PushStack
    /\ pc = 32768
    /\ cycles = 0
    /\ status_register = 1
    /\ execution_mode = "Ring0"
    /\ ram = InRam(STACK_BASE + st, <<17>>)
    /\ \E n \in PushCounts : Inserted(PushProgram(n))
    /\ GhostInit
    /\ budget = 7 * MaxPushes

SpecStack == InitStack /\ [][Clock]_vars

\* the pushes of the program being run, and the instructions executed so far
Pushes == Cardinality(DOMAIN rom_in.body)
Executed == pc - 32768

-----------------------------------------------------------------------------
(* C24: the stack pointer after n pushes and n pops                        *)

\* C24: for every initial S and every n (n = 257, which wraps, included), n
\* pushes followed by n pops leave S equal to its initial value; S is always
\* a byte, and every push or pop accesses an address inside 0x0100-0x01FF.
C24_StackBalance ==
    /\ st \in 0..255
    /\ Executed = 2 * Pushes => st = origin.st
    /\ opcode \in {"Pha", "Php", "Pla"} =>
          \A i \in 2..Len(log) : log[i][2] \in STACK_BASE..(STACK_BASE + 255)

\* the last of 257 pops has been made, after 257 pushes from S = 0x80: S went
\* down through 0x00 to 0x7F and is back at 0x80
C24_WrappedAndBack ==
    /\ Pushes = 257
    /\ Executed = 514
    /\ opcode = "Pla"
    /\ log[2][2] = STACK_BASE + 128
    /\ origin.st = 128
    /\ st = 128

-----------------------------------------------------------------------------
(* C25: the stack memory after 257 pushes and 257 pops                      *)

\* 257 pushes and 257 pops have been made
C25_Done == Pushes = 257 /\ Executed = 514

\* C25 as stated: after pushing 257 bytes and then popping 257 bytes starting
\* from stack pointer S0, the byte at 0x0100 + S0 is the one it was before the
\* first push.
C25_StartByteKept ==
    C25_Done =>
       read_ram(ram, STACK_BASE + origin.st) = read_ram(origin.ram, STACK_BASE + origin.st)

\* C25: after pushing 257 bytes and then popping 257 bytes starting from
\* stack pointer S0, the byte at 0x0100 + S0 is the 257th byte pushed (here
\* the status byte of the PHP, with B and U set), which overwrote the first
\* byte pushed there; a pop writes nothing.
C25_StartByteIsLastPushed ==
    [][/\ opcode' = "Pla" => ram' = ram
       /\ C25_Done' =>
             read_ram(ram', STACK_BASE + origin.st)
                = BitOr(origin.p, StatusRegister_B + StatusRegister_U)]_vars

\* after the 257 pushes and 257 pops from S0 = 0xFF the byte at 0x01FF is
\* 0x31, neither the 0x11 it was nor the 0x80 pushed first
C25_StartByteOverwritten ==
    /\ C25_Done
    /\ opcode = "Pla"
    /\ origin.st = 255
    /\ read_ram(origin.ram, 511) = 17
    /\ read_ram(ram, 511) = 49
    /\ st = 255

-----------------------------------------------------------------------------
(* C26: BRK                                                                *)

\* the stack address S selects
StackAt(sp) == STACK_BASE + W8(sp)

\* C26: BRK whose opcode is at address a pushes the high then the low byte of
\* a + 2, then the status byte with B and U set, leaving S decreased by 3; it
\* sets I and loads PC from the little-endian vector at 0xFFFE/0xFFFF.
C26_Brk ==
    [][opcode' = "Brk" =>
          /\ Len(log') = 6
          /\ log'[2] = <<"W", StackAt(st), W16(pc + 2) \div 256>>
          /\ log'[3] = <<"W", StackAt(st + 255), W16(pc + 2) % 256>>
          /\ log'[4] = <<"W", StackAt(st + 254),
                         BitOr(status_register, StatusRegister_B + StatusRegister_U)>>
          /\ st' = W8(st + 253)
          /\ contains(status_register', StatusRegister_I)
          /\ log'[5] = <<"R", 65534, Mem(65534)>>
          /\ log'[6] = <<"R", 65535, Mem(65535)>>
          /\ pc' = Word(Mem(65534), Mem(65535))]_vars

\* the BRK at 0x0AFF, run with S = 1, pushed 0x0B, 0x01 and the status byte at
\* 0x0101, 0x0100 and 0x01FF and jumped to the handler at 0xA000
C26_BrkPushedAcrossWrap ==
    /\ opcode = "Brk"
    /\ prior.op = "Brk"
    /\ prior.pc = 2815
    /\ prior.st = 1
    /\ log[2] = <<"W", 257, 11>>
    /\ log[3] = <<"W", 256, 1>>
    /\ log[4] = <<"W", 511, BitOr(prior.p, 48)>>
    /\ st = 254
    /\ pc = 40960

-----------------------------------------------------------------------------
(* C27: the B and U bits of the status bytes pushed                        *)

\* the status byte is the write `i` of the accesses, into the stack page, with
\* U set and B equal to `b`
StatusPushed(accesses, i, b) ==
    /\ Len(accesses) >= i
    /\ accesses[i][1] = "W"
    /\ accesses[i][2] \in STACK_BASE..(STACK_BASE + 255)
    /\ contains(accesses[i][3], StatusRegister_U)
    /\ contains(accesses[i][3], StatusRegister_B) <=> b

\* C27: in every execution, each status byte written to the stack by PHP, BRK,
\* irq() or nmi() has bit 5 (U) set; bit 4 (B) is 1 in the bytes pushed by PHP
\* and BRK and 0 in the bytes pushed by irq() and nmi().
C27_PushedStatusBits ==
    [][/\ opcode' = "Php" => StatusPushed(log', 2, TRUE)
       /\ opcode' = "Brk" => StatusPushed(log', 4, TRUE)
       /\ (call' = "irq" /\ ~contains(status_register, StatusRegister_I)) =>
             StatusPushed(log', 3, FALSE)
       /\ call' = "nmi" => StatusPushed(log', 3, FALSE)]_vars

\* nmi() entered with every flag set, B included, pushed 0xEF
C27_NmiPushedBClear ==
    /\ call = "nmi"
    /\ prior.op = "nmi"
    /\ prior.p = 255
    /\ log[3] = <<"W", StackAt(prior.st + 254), 239>>

-----------------------------------------------------------------------------
(* C28: the status register after PHP                                      *)

\* C28: PHP leaves the live status register as it was: after PHP every bit of
\* P, B and U included, equals its value before the instruction.
C28_PhpKeepsStatus ==
    [][opcode' = "Php" => status_register' = status_register]_vars

-----------------------------------------------------------------------------
(* C29: JSR, then RTS                                                      *)

\* C29: JSR whose opcode is at address a pushes the high then the low byte of
\* a + 2 and jumps to its operand; an RTS executed with the stack as JSR left
\* it pops low then high, sets PC = a + 3 and restores S to its value before
\* the JSR.
C29_JsrRts ==
    [][/\ opcode' = "JsrAbs" =>
             /\ Len(log') = 5
             /\ log'[4] = <<"W", StackAt(st), W16(pc + 2) \div 256>>
             /\ log'[5] = <<"W", StackAt(st + 255), W16(pc + 2) % 256>>
             /\ st' = W8(st + 254)
             /\ pc' = Word(log'[2][3], log'[3][3])
       /\ (opcode' = "Rts" /\ prior.op = "JsrAbs") =>
             /\ log'[2] = <<"R", StackAt(prior.st + 255), W16(prior.pc + 2) % 256>>
             /\ log'[3] = <<"R", StackAt(prior.st), W16(prior.pc + 2) \div 256>>
             /\ pc' = W16(prior.pc + 3)
             /\ st' = prior.st]_vars

\* the RTS that the JSR at 0x0AFF jumped to, run with S = 0 before the JSR,
\* pulled 0x01 from 0x01FF and 0x0B from 0x0100 and returned to 0x0B02
C29_ReturnedAcrossWrap ==
    /\ opcode = "Rts"
    /\ prior.op = "Rts"
    /\ prior.pc = 2831
    /\ origin.pc = 2815
    /\ origin.st = 0
    /\ log[2] = <<"R", 511, 1>>
    /\ log[3] = <<"R", 256, 11>>
    /\ pc = 2818
    /\ st = 0

-----------------------------------------------------------------------------
(* C30: irq() or nmi(), then RTI                                           *)

\* C30: if irq() is taken (I clear) or nmi() is called with PC = p and S = s,
\* and the handler then executes RTI with the stack as the entry left it, PC
\* returns to p without increment, S returns to s, and C, Z, I, D, V, N return
\* to their values before the interrupt, with B and U clear.
C30_InterruptRti ==
    [][(/\ opcode' = "Rti"
        /\ \/ prior.op = "irq" /\ ~contains(prior.p, StatusRegister_I)
           \/ prior.op = "nmi") =>
          /\ pc' = prior.pc
          /\ st' = prior.st
          /\ status_register'
                = BitAnd(prior.p, 255 - StatusRegister_B - StatusRegister_U)]_vars

\* the RTI of the IRQ handler at 0xA000 has run after an irq() taken at
\* PC = 0x8000, S = 0xFF, P = 0x30, before any instruction: PC and S are back
\* and P is 0x00
C30_ReturnedFromIrq ==
    /\ opcode = "Rti"
    /\ prior.op = "Rti"
    /\ prior.pc = 40960
    /\ origin.pc = 32768
    /\ origin.st = 255
    /\ origin.p = 48
    /\ log[2] = <<"R", 509, 32>>
    /\ pc = 32768
    /\ st = 255
    /\ status_register = 0
    /\ budget = MaxRegSteps - IntrCost - 8

-----------------------------------------------------------------------------
(* One instruction with a memory operand, from chosen registers and RAM:   *)
(* the instruction is in RAM at 0x0200 and the CPU is clocked at it        *)

\* clock() calls in one run: the instruction, and an idle call
MaxInstSteps == 2

\* the byte that decodes to the opcode `name`
OpcodeByte(name) == CHOOSE b \in 0..255 : Opcode_try_from(b) = name

\* the instructions by addressing mode
ReadAbsX == {"OraAbsX", "AndAbsX", "EorAbsX", "AdcAbsX", "LdaAbsX", "LdyAbsX",
             "CmpAbsX", "SbcAbsX"}
ReadAbsY == {"OraAbsY", "AndAbsY", "EorAbsY", "AdcAbsY", "LdaAbsY", "LdxAbsY",
             "CmpAbsY", "SbcAbsY"}
ReadIndY == {"OraIndY", "AndIndY", "EorIndY", "AdcIndY", "LdaIndY", "CmpIndY", "SbcIndY"}
ReadIndX == {"OraIndX", "AndIndX", "EorIndX", "AdcIndX", "LdaIndX", "CmpIndX", "SbcIndX"}
ModifyZp == {"AslZp", "LsrZp", "RolZp", "RorZp", "IncZp", "DecZp"}
ModifyZpX == {"AslZpX", "LsrZpX", "RolZpX", "RorZpX", "IncZpX", "DecZpX"}
ModifyAbs == {"AslAbs", "LsrAbs", "RolAbs", "RorAbs", "IncAbs", "DecAbs"}
ModifyAbsX == {"AslAbsX", "LsrAbsX", "RolAbsX", "RorAbsX", "IncAbsX", "DecAbsX"}
ShiftAcc == {"AslAcc", "LsrAcc", "RolAcc", "RorAcc"}

\* absolute operands (low byte 0x00, 0x80, 0xFF) and index registers
IndexBases == {768, 896, 1023}
IndexValues == {0, 1, 128, 255}
\* operand bytes in memory and accumulators
DataBytes == {0, 1, 64, 127, 128, 192, 255}
AccBytes == {0, 1, 37, 128, 255}

InstCase(acc, xr, yr, p, mem) == [a |-> acc, x |-> xr, y |-> yr, p |-> p, ram |-> mem]

\* the instruction `name` with its operand bytes, at 0x0200
Inst(name, lo, hi) == InRam(512, <<OpcodeByte(name), lo, hi>>)

\* abs,X and abs,Y: the index added to an absolute operand, with or without
\* a change of page
AbsIndexed ==
    { InstCase(1, i, i, 0, Inst(name, base % 256, base \div 256)) :
        name \in ReadAbsX \cup ReadAbsY \cup ModifyAbsX \cup {"StaAbsX", "StaAbsY"},
        base \in IndexBases, i \in IndexValues }

\* (zp),Y: the pointer at z = 0x10 or z = 0xFF; its low byte is at z, its
\* high byte 0x03 at (z + 1) & 0xFF, and 0x0100 holds 0x04
IndirectY ==
    { InstCase(1, 0, i, 0,
               Inst(name, z, 0) @@ InRam(z, <<base % 256>>) @@ InRam((z + 1) % 256, <<3>>)
               @@ InRam(256, <<4>>)) :
        name \in ReadIndY \cup {"StaIndY"}, z \in {16, 255}, base \in IndexBases,
        i \in IndexValues }

\* (zp,X), and CMP zp: zero page holds the pointer 0x0325 at 0x10 and at 0xFF
\* (high byte at 0x00), and 0x25 at 0x0F; 0x0100 holds 0x04; 0x0325 holds m
IndirectX ==
    { InstCase(acc, xo[2], 0, 0,
               Inst(name, xo[1], 0) @@ InRam(15, <<37, 37, 3>>) @@ InRam(255, <<37>>)
               @@ InRam(0, <<3>>) @@ InRam(256, <<4>>) @@ InRam(805, <<m>>)) :
        name \in ReadIndX \cup {"StaIndX", "CmpZp"},
        xo \in {<<16, 0>>, <<240, 15>>, <<16, 255>>},
        acc \in {37, 128}, m \in {0, 128} }

\* the operand m at 0x0025 and 0x0325, addressed as zp, zp,X (with and
\* without wrapping), abs and abs,X, or the accumulator as operand
OperandAt(name) ==
    IF name \in ModifyZp \cup {"BitZp"} THEN {<<37, 0, 0>>}
    ELSE IF name \in ModifyZpX THEN {<<32, 0, 5>>, <<240, 0, 53>>}
    ELSE IF name \in ModifyAbs \cup {"BitAbs"} THEN {<<37, 3, 0>>}
    ELSE IF name \in ModifyAbsX THEN {<<32, 3, 5>>}
    ELSE {<<0, 0, 0>>}

OperandOps ==
    ModifyZp \cup ModifyZpX \cup ModifyAbs \cup ModifyAbsX \cup ShiftAcc
    \cup {"BitZp", "BitAbs"}

WithOperand ==
    UNION { { InstCase(acc, o[3], 0, c,
                       Inst(name, o[1], o[2]) @@ InRam(37, <<m>>) @@ InRam(805, <<m>>)) :
                o \in OperandAt(name), acc \in AccBytes, c \in {0, 1}, m \in DataBytes } :
            name \in OperandOps }

InstCases == AbsIndexed \cup IndirectY \cup IndirectX \cup WithOperand

InitInst ==
    /\ \E c \in InstCases :
          /\ a = c.a
          /\ x = c.x
          /\ y = c.y
          /\ status_register = c.p
          /\ ram = c.ram
    /\ st = 253
    /\ pc = 512
    /\ cycles = 0
    /\ execution_mode = "Ring0"
    /\ Inserted(StackProgram)
    /\ GhostInit
    /\ budget = MaxInstSteps

SpecInst == InitInst /\ [][Clock]_vars

-----------------------------------------------------------------------------
(* C31: the page-cross cycle of the indexed modes                          *)

\* adding the index to `base` changes the page
Crossed(base, index) == base \div 256 # W16(base + index) \div 256

\* the instruction just executed cost its base count, and one cycle more iff
\* `extra`
Cost(extra) ==
    /\ penalty' = (IF extra THEN 1 ELSE 0)
    /\ cycles' + 1 = Opcode_cycles(opcode') + penalty'

\* C31: a read instruction (ORA, AND, EOR, ADC, LDA, LDX, LDY, CMP, SBC) in
\* abs,X, abs,Y or (zp),Y mode costs exactly one cycle more than its base
\* count iff adding the index changes the page of the address; STA abs,X,
\* STA abs,Y, STA (zp),Y and the read-modify-write abs,X instructions never
\* cost the page-cross cycle.
C31_PageCrossCycle ==
    [][/\ opcode' \in ReadAbsX => Cost(Crossed(Word(log'[2][3], log'[3][3]), x))
       /\ opcode' \in ReadAbsY => Cost(Crossed(Word(log'[2][3], log'[3][3]), y))
       /\ opcode' \in ReadIndY => Cost(Crossed(Word(log'[3][3], log'[4][3]), y))
       /\ opcode' \in ModifyAbsX \cup {"StaAbsX", "StaAbsY", "StaIndY"} => Cost(FALSE)]_vars

\* LDA $03FF,X with X = 1 read 0x0400 and cost 5 cycles, one more than its
\* base count
C31_LdaCrossedPage ==
    /\ opcode = "LdaAbsX"
    /\ log[2][3] = 255
    /\ log[3][3] = 3
    /\ log[4] = <<"R", 1024, 0>>
    /\ Opcode_cycles("LdaAbsX") = 4
    /\ penalty = 1
    /\ cycles = 4

-----------------------------------------------------------------------------
(* C32: the pointer of (zp),Y and (zp,X)                                   *)

\* the accesses `i` and `i + 1` read the pointer at z: its low byte at z, its
\* high byte at (z + 1) & 0xFF
PointerRead(accesses, i, z) ==
    /\ accesses[i] = <<"R", z, Mem(z)>>
    /\ accesses[i + 1] = <<"R", (z + 1) % 256, Mem((z + 1) % 256)>>

\* C32: in (zp),Y and (zp,X) addressing both bytes of the pointer are read
\* from zero page: for every pointer location z the low byte comes from z and
\* the high byte from (z + 1) & 0xFF, so for z = 0xFF the high byte is read
\* from 0x0000, never from 0x0100.
C32_PointerInZeroPage ==
    [][/\ opcode' \in ReadIndY \cup {"StaIndY"} => PointerRead(log', 3, log'[2][3])
       /\ opcode' \in ReadIndX \cup {"StaIndX"} => PointerRead(log', 3, W8(log'[2][3] + x))]_vars

-----------------------------------------------------------------------------
(* C33: CMP zp                                                             *)

\* C, Z and N of p are those of comparing the register value reg with m
Compared(p, reg, m) ==
    /\ contains(p, StatusRegister_C) <=> (reg >= m)
    /\ contains(p, StatusRegister_Z) <=> (reg = m)
    /\ contains(p, StatusRegister_N) <=> (W8(reg + 256 - m) >= 128)

\* C33: CMP zero-page compares A with the byte stored at the zero-page
\* address equal to its operand byte, so its flag results do not depend on X
\* or on any pointer read from memory.
C33_CmpZeroPage ==
    [][opcode' = "CmpZp" => Compared(status_register', a, Mem(log'[2][3]))]_vars

-----------------------------------------------------------------------------
(* C34: the flags of ASL, LSR, ROL, ROR                                    *)

AslOps == {"AslAcc", "AslZp", "AslZpX", "AslAbs", "AslAbsX"}
LsrOps == {"LsrAcc", "LsrZp", "LsrZpX", "LsrAbs", "LsrAbsX"}
RolOps == {"RolAcc", "RolZp", "RolZpX", "RolAbs", "RolAbsX"}
RorOps == {"RorAcc", "RorZp", "RorZpX", "RorAbs", "RorAbsX"}

\* the value of the last read among the accesses
LastRead(accesses) ==
    accesses[CHOOSE i \in DOMAIN accesses :
                /\ accesses[i][1] = "R"
                /\ \A j \in DOMAIN accesses : j > i => accesses[j][1] # "R"][3]

\* what the 6502 defines for the shift `name` of m with carry c: the result
\* and the bit shifted out
Shifted(name, m, c) ==
    IF name \in AslOps THEN [v |-> W8(2 * m), out |-> m \div 128]
    ELSE IF name \in LsrOps THEN [v |-> m \div 2, out |-> m % 2]
    ELSE IF name \in RolOps THEN [v |-> W8(2 * m) + c, out |-> m \div 128]
    ELSE [v |-> m \div 2 + 128 * c, out |-> m % 2]

\* C34: after ASL, LSR, ROL or ROR, on the accumulator or on a memory byte, C
\* equals the bit shifted out of the operand, Z is set iff the 8-bit result is
\* 0, and N equals bit 7 of the result (ROL/ROR shifting the previous C into
\* the vacated bit).
C34_ShiftFlags ==
    [][opcode' \in AslOps \cup LsrOps \cup RolOps \cup RorOps =>
          \E r \in {Shifted(opcode', IF opcode' \in ShiftAcc THEN a ELSE LastRead(log'),
                            CarryIn(status_register))} :
             /\ contains(status_register', StatusRegister_C) <=> (r.out = 1)
             /\ contains(status_register', StatusRegister_Z) <=> (r.v = 0)
             /\ contains(status_register', StatusRegister_N) <=> (r.v >= 128)]_vars

-----------------------------------------------------------------------------
(* C35: read-modify-write instructions write their result back             *)

ModifyOps == ModifyZp \cup ModifyZpX \cup ModifyAbs \cup ModifyAbsX

\* the index of the last read among the accesses
LastReadAt(accesses) ==
    CHOOSE i \in DOMAIN accesses :
        /\ accesses[i][1] = "R"
        /\ \A j \in DOMAIN accesses : j > i => accesses[j][1] # "R"

\* what the 6502 defines as the result of the read-modify-write `name` on m
Modified(name, m, c) ==
    IF name \in {"IncZp", "IncZpX", "IncAbs", "IncAbsX"} THEN W8(m + 1)
    ELSE IF name \in {"DecZp", "DecZpX", "DecAbs", "DecAbsX"} THEN W8(m + 255)
    ELSE Shifted(name, m, c).v

\* C35: every read-modify-write instruction on a memory operand (ASL, LSR,
\* ROL, ROR, INC, DEC in zp, zp,X, abs and abs,X modes) writes its result back
\* to the effective address the operand was read from, so that afterwards that
\* memory byte holds the result.
C35_WriteBack ==
    opcode \in ModifyOps =>
        \E i \in {LastReadAt(log)} :
           \E r \in {Modified(opcode, log[i][3], CarryIn(prior.p))} :
              /\ Len(log) = i + 1
              /\ log[i + 1] = <<"W", log[i][2], r>>
              /\ Mem(log[i][2]) = r

-----------------------------------------------------------------------------
(* C36: BIT                                                                *)

\* C36: for all A and memory operands M, BIT sets Z iff A & M = 0, sets V to
\* bit 6 of M and N to bit 7 of M (independently of A), and leaves A, C, I, D
\* unchanged.
C36_Bit ==
    opcode \in {"BitZp", "BitAbs"} =>
        \E m \in {LastRead(log)} :
           /\ contains(status_register, StatusRegister_Z) <=> (BitAnd(prior.a, m) = 0)
           /\ contains(status_register, StatusRegister_V) <=> (BitAnd(m, 64) # 0)
           /\ contains(status_register, StatusRegister_N) <=> (BitAnd(m, 128) # 0)
           /\ a = prior.a
           /\ \A f \in {StatusRegister_C, StatusRegister_I, StatusRegister_D} :
                 contains(status_register, f) <=> contains(prior.p, f)

-----------------------------------------------------------------------------
(* C37: the cycle counter stays within 0..8                                *)

\* C37: in every state reachable from Cpu::new by reset(), clock(), irq() and
\* nmi() calls the 8-bit cycle counter is valid: the decrement in clock()
\* never takes it below 0, no addition takes it above 255, and
\* 0 <= cycles <= 8.  Every opcode costs 2 to 7 base cycles and an arm adds
\* at most 2.
C37_CycleCounter ==
    /\ cycles \in 0..8
    /\ penalty \in 0..2
    /\ \A b \in 0..255 : Opcode_cycles(Decode(b)) \in 2..7

\* the 8 cycles of reset() have been counted down to 0, one per clock() call
C37_ResetCountedDown ==
    /\ prior.op = "reset"
    /\ call = "clock"
    /\ opcode = "none"
    /\ idle = 8
    /\ cycles = 0

-----------------------------------------------------------------------------
(* C38: the CPU never stays idle forever                                   *)

\* a clock() call as the ghost variables show it.  Clock is the only action
\* that sets call to "clock", and its only guard is budget >= 1.
ClockCalled == budget >= 1 /\ call' = "clock" /\ budget' = budget - 1

\* the caller keeps calling clock() as long as a call is left
SpecLive == Spec /\ WF_budget(ClockCalled)

Interrupts == {"reset", "irq", "nmi"}

\* the steps ClockCalled describes are the clock() calls; every clock() call
\* entered with a positive debt lowers it by one, the call
\* entered with debt 0 executes, at most 8 idle calls come in a row, and after
\* reset() the first executing call follows exactly 8 idle ones
C38_DebtPaid ==
    [][/\ ClockCalled <=> Clock
       /\ call' = "clock" =>
          /\ (opcode' # "none") <=> (cycles = 0)
          /\ cycles > 0 => /\ cycles' = cycles - 1
                           /\ idle' = idle + 1
          /\ idle' <= 8
          /\ (opcode' # "none" /\ prior.op = "reset") => idle = 8]_vars

\* from any state with 9 calls left, enough to pay the largest debt and
\* execute, an opcode is fetched within 9 clock() calls unless reset(), irq()
\* or nmi() is called first
C38_Fetches ==
    \A n \in 9..MaxSteps :
        (budget = n)
           ~> \/ call = "clock" /\ opcode # "none" /\ budget \in (n - 9)..(n - 1)
              \/ call \in Interrupts /\ budget < n

\* C38: the CPU never stays idle forever: from any reachable state, if
\* clock() is called repeatedly with no reset/irq/nmi in between, the cycle
\* debt strictly decreases to 0 and a new opcode is fetched within at most 9
\* clock() calls; after reset(), exactly the 9th clock() call executes the
\* first instruction.
C38_NeverIdleForever == C38_DebtPaid /\ C38_Fetches

\* reset() and then 9 clock() calls: the 9th executed the instruction at the
\* RESET vector's target
C38_NinthCallExecuted ==
    /\ call = "clock"
    /\ opcode # "none"
    /\ prior.pc = 32768
    /\ owed = 0
    /\ budget = MaxSteps - IntrCost - 9

-----------------------------------------------------------------------------
(* C39: the execution mode is fixed and isolates the two embedded arrays   *)

MaxTwinSteps == 24

\* other contents for an embedded array: other bytes, other lengths
OtherFlags == {<<1, 2, 3, 4, 5>>, <<9>>, <<102, 108, 97, 103, 45, 52, 33>>}

\* the record of a second Cpu on the same memory whose array of the other
\* mode (FLAG3 for a Ring3 Cpu, FLAG4 for a Ring0 Cpu) holds `other`
Twinned(other) ==
    IF execution_mode = "Ring3"
    THEN [Cur EXCEPT !.flag3 = other]
    ELSE [Cur EXCEPT !.flag4 = other]

\* Cpu::new(execution_mode) twice, on the ROM that reads the arrays
InitTwin ==
    /\ CpuNew
    /\ ram = EmptyMem
    /\ Inserted(FlagProgram)
    /\ GhostStart
    /\ \E other \in OtherFlags : twin = [on |-> TRUE, s |-> Twinned(other)]
    /\ budget = MaxTwinSteps

\* both Cpus receive the same reset, irq, nmi and clock calls
SpecTwin == InitTwin /\ [][Next]_vars

\* the Cpu and the memory of a record
Visible(s) ==
    [a |-> s.a, x |-> s.x, y |-> s.y, st |-> s.st, pc |-> s.pc,
     cycles |-> s.cycles, p |-> s.p, ram |-> s.ram]

\* the second run is where the first is
TwinAgrees == twin.on => Visible(twin.s) = Visible(Cur)

\* C39: the execution mode is fixed at construction and isolates the two
\* embedded arrays: no reset/clock/irq/nmi call changes execution_mode, and
\* for a Cpu created in Ring3 two runs on the same memory contents that differ
\* only in the contents of FLAG3 reach identical CPU and memory states at
\* every step (symmetrically for Ring0 and FLAG4).
C39_ModeIsolatesArrays ==
    /\ [][execution_mode' = execution_mode]_vars
    /\ []TwinAgrees

\* a Ring3 Cpu has read its array in the interrupt handler, stored the byte
\* and jumped through it, next to a run whose FLAG3 has other contents
C39_Ring3ReadFlag4 ==
    /\ twin.on
    /\ execution_mode = "Ring3"
    /\ twin.s.flag3 # FLAG3
    /\ opcode = "JmpInd"
    /\ Mem(16) = FLAG4[2]
    /\ twin.s.pc = pc

=============================================================================
